---------------------------- MODULE Spec2Model ----------------------------
(***************************************************************************)
(* Model of the mia1321 V4L2 sub-device sensor driver                      *)
(* (sysdrv/source/kernel/drivers/media/i2c/mia1321.c).                     *)
(*                                                                         *)
(* The driver state (struct mia1321), the V4L2 controls it owns, the       *)
(* sensor registers it reads back, the runtime-PM state of the I2C device  *)
(* and the board resources (xvclk, regulators, reset/pwdn lines) are the   *)
(* variables.  Every sub-device callback is one action.  A callback is     *)
(* written as an operator from a "world" record (all of the above plus the *)
(* trace of bus and board operations issued so far, the return value and   *)
(* the number of injected faults) to the SET of worlds it can end in: an   *)
(* I2C transfer, clk_prepare_enable and regulator_bulk_enable can each     *)
(* fail, which is the only nondeterminism inside a callback.               *)
(***************************************************************************)
EXTENDS Integers, Sequences, FiniteSets, TLC

(***************************************************************************)
(* Bounds of the model.                                                    *)
(***************************************************************************)
\* At most this many injected faults (failed I2C transfers, failed clock or
\* regulator enables) during one callback.
MaxFaults == 1
\* pm_runtime_put on a usage count of 0 drives it negative; callbacks are not
\* taken once the count has fallen this far below 0.
MaxUnderflow == 2
\* A failing transfer inside a register table is explored at the first
\* MaxFaultSites entries of the table and at its last entry.
MaxFaultSites == 2

(***************************************************************************)
(* Program constants (#define lines of mia1321.c).                         *)
(***************************************************************************)
CHIP_ID == 1024
MIA1321_REG_CHIP_ID == 17
MIA1321_REG_CTRL_MODE == 294
MIA1321_MODE_SW_STANDBY == 1
MIA1321_MODE_STREAMING == 0
MIA1321_REG_EXPOSURE_H == 207
MIA1321_REG_EXPOSURE_M == 206
MIA1321_REG_EXPOSURE_L == 205
MIA1321_EXPOSURE_MIN == 1
MIA1321_EXPOSURE_STEP == 1
MIA1321_REG_ANA_GAIN_H == 27
MIA1321_REG_ANA_GAIN_M == 25
MIA1321_REG_ANA_GAIN_L == 24
MIA1321_ONCE_GAIN_STEP == 1500
MIA1321_GAIN_MIN == MIA1321_ONCE_GAIN_STEP
MIA1321_AGAIN_MAX == MIA1321_ONCE_GAIN_STEP * 32
MIA1321_GAIN_MAX == MIA1321_AGAIN_MAX * 1
MIA1321_GAIN_STEP == 1
MIA1321_GAIN_DEFAULT == MIA1321_ONCE_GAIN_STEP
MIA1321_VTS_MAX == 65535
MIA1321_MIRROR_REG == 154
MIA1321_FLIP_REG == 153
MIRROR_BIT_MASK == 1
FLIP_BIT_MASK == 2
REG_DELAY == 65534
REG_NULL == 65535
MIA1321_REG_VALUE_08BIT == 1
MIA1321_REG_VALUE_16BIT == 2
MIA1321_LANES == 2
\* the number of pads of the vc[] array of a mode, and its first pad
PAD_MAX == 4
PAD0 == 0

\* errno values returned (negated) by the driver
EIO == 5
ENODEV == 19
EINVAL == 22
ENOIOCTLCMD == 515

(***************************************************************************)
(* Bit operations on the unsigned values the driver handles.               *)
(***************************************************************************)
\* (VAL >> 16) & 0xFF
MIA1321_FETCH_EXP_H(VAL) == (VAL \div 65536) % 256

\* A faulty MIA1321_FETCH_EXP_M: the shift is missing
FETCH_EXP_M_Unshifted(VAL) == VAL % 256

\* (VAL >> 8) & 0xFF
MIA1321_FETCH_EXP_M(VAL) == (VAL \div 256) % 256

\* VAL & 0xFF
MIA1321_FETCH_EXP_L(VAL) == VAL % 256

\* val |= mask, for a mask of one bit
SetBit(val, mask) == IF (val \div mask) % 2 = 1 THEN val ELSE val + mask

\* val &= ~mask, for a mask of one bit
ClearBit(val, mask) == IF (val \div mask) % 2 = 1 THEN val - mask ELSE val

\* ret |= r for return values that are 0 or one and the same negative errno
\* (every failing mia1321_write_reg of at most 4 bytes returns -EIO)
OrRet(a, b) == IF a = 0 THEN b ELSE a

(***************************************************************************)
(* Register tables.  Addresses and values are the table's, in decimal.     *)
(***************************************************************************)
\* mia1321_global_regs: lines 170-172, 1 entries
mia1321_global_regs ==
  <<<<REG_NULL, 0>> >>

\* mia1321_linear_60_1280x1080_regs: lines 174-273, 82 entries
mia1321_linear_60_1280x1080_regs ==
  <<<<285, 0>>, <<287, 0>>, <<302, 2>>, <<299, 1>>, <<189, 0>>, <<188, 1>>,
     <<191, 0>>, <<192, 0>>, <<205, 1>>, <<206, 1>>, <<207, 0>>, <<225, 0>>,
     <<284, 0>>, <<288, 0>>, <<293, 0>>, <<60, 1>>, <<61, 3>>, <<4609, 240>>,
     <<4177, 30>>, <<4610, 112>>, <<4611, 16>>, <<4208, 2>>, <<4613, 0>>, <<4616, 1>>,
     <<4096, 22>>, <<4132, 0>>, <<4133, 5>>, <<4134, 56>>, <<4135, 4>>, <<4128, 42>>,
     <<4162, 3>>, <<16, 5>>, <<18, 1>>, <<67, 3>>, <<63, 63>>, <<65, 255>>,
     <<154, 1>>, <<153, 1>>, <<202, 1>>, <<225, 0>>, <<226, 0>>, <<48, 192>>,
     <<300, 1>>, <<74, 1>>, <<75, 144>>, <<76, 3>>, <<78, 1>>, <<81, 3>>,
     <<83, 3>>, <<208, 154>>, <<209, 2>>, <<223, 66>>, <<457, 154>>, <<458, 2>>,
     <<67, 1>>, <<765, 88>>, <<766, 66>>, <<799, 176>>, <<800, 4>>, <<773, 8>>,
     <<774, 135>>, <<775, 252>>, <<776, 8>>, <<791, 128>>, <<792, 12>>, <<783, 250>>,
     <<784, 15>>, <<767, 250>>, <<768, 143>>, <<777, 250>>, <<778, 143>>, <<206, 3>>,
     <<4096, 6>>, <<4120, 1>>, <<4120, 0>>, <<298, 1>>, <<298, 0>>, <<206, 0>>,
     <<205, 1>>, <<298, 1>>, <<298, 0>>, <<REG_NULL, 0>> >>

\* mia1321_linear_120_1280x1080_regs: lines 274-370, 80 entries
mia1321_linear_120_1280x1080_regs ==
  <<<<285, 0>>, <<287, 0>>, <<302, 2>>, <<299, 1>>, <<189, 0>>, <<188, 1>>,
     <<191, 0>>, <<192, 0>>, <<205, 1>>, <<206, 1>>, <<207, 0>>, <<225, 0>>,
     <<284, 0>>, <<288, 0>>, <<293, 0>>, <<60, 1>>, <<61, 3>>, <<4609, 240>>,
     <<4177, 30>>, <<4610, 112>>, <<4611, 16>>, <<4208, 2>>, <<4613, 0>>, <<4616, 1>>,
     <<4096, 22>>, <<4132, 0>>, <<4133, 5>>, <<4134, 56>>, <<4135, 4>>, <<4128, 42>>,
     <<4162, 3>>, <<16, 5>>, <<18, 1>>, <<67, 3>>, <<63, 63>>, <<65, 255>>,
     <<202, 1>>, <<225, 0>>, <<226, 0>>, <<48, 192>>, <<300, 1>>, <<74, 1>>,
     <<75, 216>>, <<76, 2>>, <<78, 1>>, <<81, 2>>, <<83, 2>>, <<208, 154>>,
     <<209, 2>>, <<223, 66>>, <<457, 154>>, <<458, 2>>, <<67, 1>>, <<765, 88>>,
     <<766, 66>>, <<799, 176>>, <<800, 4>>, <<773, 8>>, <<774, 135>>, <<775, 252>>,
     <<776, 8>>, <<791, 128>>, <<792, 12>>, <<783, 250>>, <<784, 15>>, <<767, 250>>,
     <<768, 143>>, <<777, 250>>, <<778, 143>>, <<206, 3>>, <<4096, 6>>, <<4120, 1>>,
     <<4120, 0>>, <<298, 1>>, <<298, 0>>, <<206, 0>>, <<205, 1>>, <<298, 1>>,
     <<298, 0>>, <<REG_NULL, 0>> >>

\* mia1321_linear_10_1280x720_regs: lines 371-457, 76 entries
mia1321_linear_10_1280x720_regs ==
  <<<<285, 1>>, <<287, 0>>, <<302, 2>>, <<299, 1>>, <<189, 0>>, <<188, 1>>,
     <<191, 5>>, <<192, 0>>, <<205, 1>>, <<206, 1>>, <<207, 0>>, <<225, 0>>,
     <<284, 0>>, <<288, 0>>, <<293, 0>>, <<60, 1>>, <<61, 3>>, <<4609, 240>>,
     <<4177, 30>>, <<4610, 112>>, <<4611, 16>>, <<4208, 2>>, <<4613, 0>>, <<4616, 1>>,
     <<4096, 22>>, <<4132, 0>>, <<4133, 5>>, <<4134, 56>>, <<4135, 4>>, <<4128, 42>>,
     <<4162, 3>>, <<16, 5>>, <<18, 1>>, <<67, 3>>, <<63, 63>>, <<65, 255>>,
     <<202, 1>>, <<225, 0>>, <<226, 0>>, <<48, 192>>, <<300, 1>>, <<74, 1>>,
     <<75, 96>>, <<208, 154>>, <<209, 2>>, <<223, 66>>, <<457, 154>>, <<458, 2>>,
     <<67, 1>>, <<765, 88>>, <<766, 66>>, <<799, 176>>, <<800, 4>>, <<773, 8>>,
     <<774, 135>>, <<775, 252>>, <<776, 8>>, <<791, 128>>, <<792, 12>>, <<783, 250>>,
     <<784, 15>>, <<767, 250>>, <<768, 143>>, <<777, 250>>, <<778, 143>>, <<206, 3>>,
     <<4096, 6>>, <<4120, 1>>, <<4120, 0>>, <<298, 1>>, <<298, 0>>, <<206, 0>>,
     <<205, 1>>, <<298, 1>>, <<298, 0>>, <<REG_NULL, 0>> >>


\* struct s_again mia1321_again[]: {again, reg_0x18, reg_0x19, reg_0x1b};
\* row i of the C array is element i + 1 here.
mia1321_again ==
  LET rows ==
        << <<800, 0, 0, 31>>, <<1000, 4, 0, 31>>, <<1250, 9, 0, 31>>, <<1500, 14, 0, 31>>,
         <<1750, 19, 0, 43>>, <<2200, 28, 0, 43>>, <<2450, 33, 0, 43>>, <<2700, 38, 0, 43>>,
         <<2950, 43, 0, 43>>, <<3400, 52, 0, 48>>, <<3650, 57, 0, 48>>, <<3900, 62, 0, 48>>,
         <<4150, 67, 0, 48>>, <<4600, 76, 0, 48>>, <<4850, 81, 0, 48>>, <<5100, 86, 0, 48>>,
         <<5350, 91, 0, 48>>, <<5800, 100, 0, 48>>, <<6050, 105, 0, 48>>, <<6300, 110, 0, 48>>,
         <<6550, 115, 0, 50>>, <<7000, 124, 0, 50>>, <<7800, 190, 0, 50>>, <<8800, 200, 0, 50>>,
         <<9800, 210, 0, 50>>, <<10800, 220, 0, 50>>, <<12600, 238, 0, 50>>, <<13600, 248, 0, 50>>,
         <<14600, 57, 1, 50>>, <<15600, 62, 1, 50>>, <<17400, 71, 1, 50>>, <<18400, 76, 1, 50>>,
         <<19400, 81, 1, 50>>, <<20400, 86, 1, 50>>, <<22200, 95, 1, 50>>, <<23200, 100, 1, 50>>,
         <<24200, 105, 1, 50>>, <<25200, 110, 1, 50>>, <<25600, 112, 1, 50>> >>
  IN  [i \in 1..Len(rows) |->
         [again |-> rows[i][1], reg_0018 |-> rows[i][2],
          reg_0019 |-> rows[i][3], reg_001b |-> rows[i][4]]]

\* supported_modes[0..2]
supported_modes ==
  ( 0 :> [width |-> 1280, height |-> 1080,
          max_fps |-> [numerator |-> 10000, denominator |-> 600000],
          exp_def |-> 500, hts_def |-> 2664, vts_def |-> 1200,
          bus_fmt |-> "MEDIA_BUS_FMT_SGRBG10_1X10",
          reg_list |-> mia1321_linear_60_1280x1080_regs,
          hdr_mode |-> "NO_HDR",
          vc |-> <<"V4L2_MBUS_CSI2_CHANNEL_0", "0", "0", "0">>]
 @@ 1 :> [width |-> 1280, height |-> 1080,
          max_fps |-> [numerator |-> 10000, denominator |-> 1170000],
          exp_def |-> 500, hts_def |-> 2664, vts_def |-> 1200,
          bus_fmt |-> "MEDIA_BUS_FMT_SGRBG10_1X10",
          reg_list |-> mia1321_linear_120_1280x1080_regs,
          hdr_mode |-> "NO_HDR",
          vc |-> <<"V4L2_MBUS_CSI2_CHANNEL_0", "0", "0", "0">>]
 @@ 2 :> [width |-> 1280, height |-> 1080,
          max_fps |-> [numerator |-> 10000, denominator |-> 300000],
          exp_def |-> 82, hts_def |-> 2664, vts_def |-> 1200,
          bus_fmt |-> "MEDIA_BUS_FMT_SGRBG12_1X12",
          reg_list |-> mia1321_linear_10_1280x720_regs,
          hdr_mode |-> "NO_HDR",
          vc |-> <<"V4L2_MBUS_CSI2_CHANNEL_0", "0", "0", "0">>] )

\* ARRAY_SIZE(supported_modes)
NumModes == Cardinality(DOMAIN supported_modes)

\* mia1321_test_pattern_menu: ARRAY_SIZE - 1 is the largest menu index
TestPatternMax == 4

(***************************************************************************)
(* State.                                                                  *)
(***************************************************************************)
VARIABLES
  platform,  \* build and board configuration: thunderboot, which GPIOs exist
  bound,     \* "unbound", "bound", "failed" (probe returned an error), "removed"
  mia1321,   \* the fields of struct mia1321 the callbacks read and write
  ctrls,     \* the V4L2 controls of ctrl_handler: value and range of each
  try_fmt,   \* the pad's TRY format (struct v4l2_subdev_pad_config)
  sensor,    \* sensor registers: the last value successfully written to each
  pm,        \* runtime-PM state of the I2C client device
  board,     \* xvclk and regulator enable counts, reset / pwdn lines, pins
  call       \* the most recent callback: name, arguments, return value,
             \* output, the trace of bus / board operations it issued, and
             \* whether it reached the bus while the sensor was not held
             \* powered
VARIABLES
  mutex,     \* mia1321->mutex: "free" or the thread that holds it
  threads,   \* for each thread running callbacks concurrently: the callback
             \* it is in, its position in it and its local variables
  access     \* the most recent access to cur_mode or to the hblank / vblank
             \* ranges: thread, callback, kind, and whether the thread held
             \* the mutex

vars ==
  <<platform, bound, mia1321, ctrls, try_fmt, sensor, pm, board, call,
    mutex, threads, access>>

\* The registers whose content the driver or a claim observes.  Writes to
\* every other address are kept in the trace only.
TrackedRegs ==
  { MIA1321_REG_CHIP_ID, MIA1321_REG_CTRL_MODE,
    MIA1321_REG_EXPOSURE_H, MIA1321_REG_EXPOSURE_M, MIA1321_REG_EXPOSURE_L,
    MIA1321_REG_ANA_GAIN_H, MIA1321_REG_ANA_GAIN_M, MIA1321_REG_ANA_GAIN_L,
    MIA1321_MIRROR_REG, MIA1321_FLIP_REG }

\* The controls created with mia1321_ctrl_ops, in creation order: the order
\* in which __v4l2_ctrl_handler_setup calls s_ctrl.
CtrlOrder ==
  << "V4L2_CID_VBLANK", "V4L2_CID_EXPOSURE", "V4L2_CID_ANALOGUE_GAIN",
     "V4L2_CID_TEST_PATTERN", "V4L2_CID_HFLIP", "V4L2_CID_VFLIP" >>

(***************************************************************************)
(* Worlds.  A callback maps the world it starts in to the set of worlds it *)
(* can end in.  log is the trace of the callback, rv the return value of   *)
(* the call just made, rd the value of the last register read, faults the  *)
(* number of faults injected so far in this callback, cold whether the     *)
(* callback issued an I2C transfer while the sensor was not held powered.  *)
(***************************************************************************)
World ==
  [platform |-> platform, bound |-> bound, mia |-> mia1321, ctrls |-> ctrls,
   try_fmt |-> try_fmt, regs |-> sensor, pm |-> pm, board |-> board,
   log |-> <<>>, rv |-> 0, rd |-> 0, out |-> <<>>, faults |-> 0,
   cold |-> FALSE]

\* f applied to every world of S
Bind(S, f(_)) == UNION { f(w) : w \in S }

Ev(op, addr, val, ok) == [op |-> op, addr |-> addr, val |-> val, ok |-> ok]

\* in world w the sensor is held powered: the device is runtime-active with
\* a usage count above 0, and xvclk, which __mia1321_power_on enables first
\* and __mia1321_power_off disables first, is enabled
HeldPowered(w) ==
  /\ w.pm.status = "active"
  /\ w.pm.usage_count > 0
  /\ w.board.xvclk > 0

Emit(w, e) ==
  [w EXCEPT !.log = Append(@, e),
            !.cold = @ \/ (e.op \in {"i2c_write", "i2c_read"}
                             /\ ~HeldPowered(w))]

Ret(w, r) == [w EXCEPT !.rv = r]

CanFail(w) == w.faults < MaxFaults

(***************************************************************************)
(* I2C register access.                                                    *)
(***************************************************************************)
\* mia1321_write_reg when the transfer succeeds: the register takes the low
\* len bytes of val, 0 is returned
WriteDone(w, reg, len, val) ==
  LET v == val % (256 ^ len)
  IN  [Emit(w, Ev("i2c_write", reg, v, TRUE)) EXCEPT
         !.rv = 0,
         !.regs = IF reg \in DOMAIN w.regs
                  THEN [w.regs EXCEPT ![reg] = v] ELSE w.regs]

\* mia1321_write_reg when i2c_master_send fails: -EIO, the register keeps its
\* content
WriteLost(w, reg, len, val) ==
  [Emit(w, Ev("i2c_write", reg, val % (256 ^ len), FALSE)) EXCEPT
     !.rv = -EIO, !.faults = @ + 1]

\* mia1321_write_reg
mia1321_write_reg(w, reg, len, val) ==
  IF len > 4
  THEN { Ret(w, -EINVAL) }
  ELSE {WriteDone(w, reg, len, val)}
         \cup (IF CanFail(w) THEN {WriteLost(w, reg, len, val)} ELSE {})

\* mia1321_read_reg: *val (rd) is assigned only when the transfer succeeds.
mia1321_read_reg(w, reg, len) ==
  IF len > 4 \/ len = 0
  THEN { Ret(w, -EINVAL) }
  ELSE
    LET v == IF reg \in DOMAIN w.regs THEN w.regs[reg] ELSE 0
        done == [Emit(w, Ev("i2c_read", reg, v, TRUE)) EXCEPT
                   !.rv = 0, !.rd = v]
        lost == [Emit(w, Ev("i2c_read", reg, 0, FALSE)) EXCEPT
                   !.rv = -EIO, !.faults = @ + 1]
    IN  {done} \cup (IF CanFail(w) THEN {lost} ELSE {})

\* the index of the first REG_NULL entry of a register table
TableEnd(regs) ==
  CHOOSE n \in 1..Len(regs) :
    /\ regs[n][1] = REG_NULL
    /\ \A m \in 1..(n - 1) : regs[m][1] # REG_NULL

\* One iteration of the loop of mia1321_write_array whose write succeeds
WriteEntry(w, entry) ==
  IF entry[1] = REG_DELAY
  THEN Emit(w, Ev("mdelay", 0, entry[2], TRUE))
  ELSE WriteDone(w, entry[1], MIA1321_REG_VALUE_08BIT, entry[2])

\* The loop of mia1321_write_array after its first k entries were all
\* written (or, for REG_DELAY, waited for): the trace grows by the k
\* operations in table order, and a register holds what the last of the k
\* entries naming it wrote.  (An entry's effect does not depend on the
\* entries before it, so each is taken from WriteEntry on w.)
WrittenUpTo(w, regs, k) ==
  [w EXCEPT
     !.rv = 0,
     !.log = w.log \o [i \in 1..k |->
                         WriteEntry(w, regs[i]).log[Len(w.log) + 1]],
     !.regs = [r \in DOMAIN w.regs |->
                 LET hits == { i \in 1..k : regs[i][1] = r }
                 IN  IF hits = {} THEN w.regs[r]
                     ELSE WriteEntry(
                            w, regs[CHOOSE i \in hits :
                                      \A j \in hits : j <= i]).regs[r]]]

\* The entries of a table at which a failing transfer is explored: the first
\* MaxFaultSites entries and the last one (REG_DELAY entries make no transfer)
FaultSites(regs) ==
  LET n == TableEnd(regs) - 1
  IN  { i \in 1..n : regs[i][1] # REG_DELAY /\ (i <= MaxFaultSites \/ i = n) }

\* mia1321_write_array: the loop ends at REG_NULL with ret 0, or at the first
\* write that fails with that write's error
mia1321_write_array(w, regs) ==
  LET n == TableEnd(regs) - 1
  IN  { WrittenUpTo(w, regs, n) }
        \cup { WriteLost(WrittenUpTo(w, regs, k - 1), regs[k][1],
                         MIA1321_REG_VALUE_08BIT, regs[k][2]) :
                 k \in { i \in FaultSites(regs) : CanFail(w) } }

(***************************************************************************)
(* Board resources.                                                        *)
(***************************************************************************)
\* clk_prepare_enable(xvclk)
clk_prepare_enable(w) ==
  LET done == [Emit(w, Ev("clk_prepare_enable", 0, 0, TRUE)) EXCEPT
                 !.rv = 0, !.board.xvclk = @ + 1]
      lost == [Emit(w, Ev("clk_prepare_enable", 0, 0, FALSE)) EXCEPT
                 !.rv = -EINVAL, !.faults = @ + 1]
  IN  {done} \cup (IF CanFail(w) THEN {lost} ELSE {})

\* clk_disable_unprepare(xvclk)
clk_disable_unprepare(w) ==
  [Emit(w, Ev("clk_disable_unprepare", 0, 0, TRUE)) EXCEPT
     !.board.xvclk = @ - 1]

\* regulator_bulk_enable(MIA1321_NUM_SUPPLIES, supplies)
regulator_bulk_enable(w) ==
  LET done == [Emit(w, Ev("regulator_bulk_enable", 0, 0, TRUE)) EXCEPT
                 !.rv = 0, !.board.supplies = @ + 1]
      lost == [Emit(w, Ev("regulator_bulk_enable", 0, 0, FALSE)) EXCEPT
                 !.rv = -EINVAL, !.faults = @ + 1]
  IN  {done} \cup (IF CanFail(w) THEN {lost} ELSE {})

\* regulator_bulk_disable(MIA1321_NUM_SUPPLIES, supplies)
regulator_bulk_disable(w) ==
  [Emit(w, Ev("regulator_bulk_disable", 0, 0, TRUE)) EXCEPT
     !.board.supplies = @ - 1]

\* if (!IS_ERR(reset_gpio)) gpiod_set_value_cansleep(reset_gpio, v)
set_reset_gpio(w, v) ==
  IF w.platform.has_reset
  THEN [Emit(w, Ev("reset_gpio", 0, v, TRUE)) EXCEPT !.board.reset = v]
  ELSE w

\* if (!IS_ERR(pwdn_gpio)) gpiod_set_value_cansleep(pwdn_gpio, v)
set_pwdn_gpio(w, v) ==
  IF w.platform.has_pwdn
  THEN [Emit(w, Ev("pwdn_gpio", 0, v, TRUE)) EXCEPT !.board.pwdn = v]
  ELSE w

\* if (!IS_ERR_OR_NULL(pins)) pinctrl_select_state(pinctrl, pins); a failure
\* is only logged by the driver
pinctrl_select_state(w, state) ==
  [Emit(w, Ev("pinctrl_select_state", 0, 0, TRUE)) EXCEPT !.board.pins = state]

\* A faulty __mia1321_power_on: reset is released before the regulators are
\* enabled
power_on_ResetBeforeRegulators(w) ==
  Bind(clk_prepare_enable(pinctrl_select_state(w, "default")),
    LAMBDA w1 :
      IF w1.rv < 0 THEN {w1}
      ELSE IF w1.mia.is_thunderboot THEN { Ret(w1, 0) }
      ELSE Bind(regulator_bulk_enable(set_reset_gpio(w1, 1)),
             LAMBDA w2 :
               IF w2.rv < 0
               THEN { Ret(clk_disable_unprepare(w2), w2.rv) }
               ELSE { Ret(set_pwdn_gpio(w2, 1), 0) }))

\* __mia1321_power_on
mia1321_power_on(w) ==
  Bind(clk_prepare_enable(pinctrl_select_state(w, "default")),
    LAMBDA w1 :
      IF w1.rv < 0 THEN {w1}
      ELSE IF w1.mia.is_thunderboot THEN { Ret(w1, 0) }
      ELSE Bind(regulator_bulk_enable(set_reset_gpio(w1, 0)),
             LAMBDA w2 :
               IF w2.rv < 0
               THEN { Ret(clk_disable_unprepare(w2), w2.rv) }
               ELSE { Ret(set_pwdn_gpio(set_reset_gpio(w2, 1), 1), 0) }))

\* __mia1321_power_off
mia1321_power_off(w) ==
  LET w1 == clk_disable_unprepare(w)
      off(x) == regulator_bulk_disable(
                  pinctrl_select_state(
                    set_reset_gpio(set_pwdn_gpio(x, 0), 0), "sleep"))
  IN  IF w1.mia.is_thunderboot
      THEN IF w1.mia.is_first_streamoff
           THEN off([w1 EXCEPT !.mia.is_thunderboot = FALSE,
                               !.mia.is_first_streamoff = FALSE])
           ELSE w1
      ELSE off(w1)

(***************************************************************************)
(* Runtime PM of the client device (drivers/base/power/runtime.c), as the  *)
(* driver uses it.  runtime_resume is __mia1321_power_on, runtime_suspend  *)
(* is __mia1321_power_off.                                                 *)
(***************************************************************************)
\* pm_runtime_get_sync: the usage count is raised whatever the outcome; 1 when
\* the device was active, 0 after a successful resume, else a negative errno
pm_runtime_get_sync(w) ==
  LET w1 == [w EXCEPT !.pm.usage_count = @ + 1]
  IN  IF w1.pm.runtime_error THEN { Ret(w1, -EINVAL) }
      ELSE IF ~w1.pm.enabled THEN { Ret(w1, -13) }
      ELSE IF w1.pm.status = "active"
      THEN { Ret([w1 EXCEPT !.pm.idle_req = FALSE], 1) }
      ELSE Bind(mia1321_power_on([w1 EXCEPT !.pm.idle_req = FALSE]),
             LAMBDA w2 :
               IF w2.rv = 0
               THEN { [w2 EXCEPT !.pm.status = "active"] }
               ELSE { [w2 EXCEPT !.pm.runtime_error = TRUE] })

\* whether rpm_idle / rpm_suspend would suspend the device
SuspendAllowed(p) ==
  /\ ~p.runtime_error
  /\ p.enabled
  /\ p.usage_count <= 0
  /\ p.status = "active"

\* pm_runtime_put: drop a reference and, when the count reaches 0, queue an
\* idle request (asynchronous)
pm_runtime_put(w) ==
  LET w1 == [w EXCEPT !.pm.usage_count = @ - 1]
  IN  IF w1.pm.usage_count = 0 /\ SuspendAllowed(w1.pm)
      THEN [w1 EXCEPT !.pm.idle_req = TRUE]
      ELSE w1

\* pm_runtime_put_noidle: atomic_add_unless(&usage_count, -1, 0)
pm_runtime_put_noidle(w) ==
  IF w.pm.usage_count = 0 THEN w ELSE [w EXCEPT !.pm.usage_count = @ - 1]

\* pm_runtime_get_if_in_use: rv is 1 with the count raised when the device is
\* active and in use, 0 when not, -EINVAL when runtime PM is disabled
pm_runtime_get_if_in_use(w) ==
  IF ~w.pm.enabled THEN Ret(w, -EINVAL)
  ELSE IF w.pm.status # "active" \/ w.pm.usage_count = 0 THEN Ret(w, 0)
  ELSE Ret([w EXCEPT !.pm.usage_count = @ + 1], 1)

\* rpm_idle followed by rpm_suspend, run synchronously (pm_runtime_idle) or
\* from the PM workqueue (the request queued by pm_runtime_put)
rpm_idle(w) ==
  LET w1 == [w EXCEPT !.pm.idle_req = FALSE]
  IN  IF SuspendAllowed(w1.pm)
      THEN [mia1321_power_off(w1) EXCEPT !.pm.status = "suspended"]
      ELSE w1

(***************************************************************************)
(* Control handlers.                                                       *)
(***************************************************************************)
\* the mode cur_mode points to
CurMode(w) == supported_modes[w.mia.cur_mode]

\* mia1321_set_orientation_reg: the results of the two writes are ignored
mia1321_set_orientation_reg(w, en_flip_mir) ==
  LET flip == en_flip_mir \in {2, 3}
      mirror == en_flip_mir \in {1, 3}
      w1 == [w EXCEPT !.mia.is_flip = flip, !.mia.is_mirror = mirror]
  IN  Bind(mia1321_write_reg(w1, MIA1321_FLIP_REG, MIA1321_REG_VALUE_08BIT,
                             IF flip THEN 1 ELSE 0),
        LAMBDA w2 :
          mia1321_write_reg(w2, MIA1321_MIRROR_REG, MIA1321_REG_VALUE_08BIT,
                            IF mirror THEN 1 ELSE 0))

\* The while loop of mia1321_set_gain_reg from row i (0-based) on; cur is
\* <<gain_0x0018, gain_0x0019, gain_0x001b>> as set so far.
RECURSIVE GainLoop(_, _, _)
GainLoop(gain, i, cur) ==
  IF i >= Len(mia1321_again) THEN cur
  ELSE IF gain <= mia1321_again[i + 1].again
  THEN << mia1321_again[i + 1].reg_0018, mia1321_again[i + 1].reg_0019,
          mia1321_again[i + 1].reg_001b >>
  ELSE IF gain >= MIA1321_GAIN_MAX - 1
  THEN << 112, 1, 50 >>
  ELSE GainLoop(gain, i + 1, cur)

\* The register triple <<0x0018, 0x0019, 0x001b>> mia1321_set_gain_reg
\* computes for gain: the two clamps, then the loop from the initial triple.
GainRegs(gain) ==
  LET g1 == IF gain <= MIA1321_GAIN_MIN THEN MIA1321_GAIN_MIN ELSE gain
      g2 == IF g1 > MIA1321_GAIN_MAX - 1 THEN MIA1321_GAIN_MAX - 1 ELSE g1
  IN  GainLoop(g2, 0, << 0, 0, 31 >>)

\* mia1321_set_gain_reg
mia1321_set_gain_reg(w, gain) ==
  LET t == GainRegs(gain)
  IN  Bind(mia1321_write_reg(w, MIA1321_REG_ANA_GAIN_H,
                             MIA1321_REG_VALUE_08BIT, t[3]),
        LAMBDA w1 :
          Bind(mia1321_write_reg(w1, MIA1321_REG_ANA_GAIN_M,
                                 MIA1321_REG_VALUE_08BIT, t[2]),
            LAMBDA w2 :
              { Ret(w3, OrRet(OrRet(w1.rv, w2.rv), w3.rv)) :
                  w3 \in mia1321_write_reg(w2, MIA1321_REG_ANA_GAIN_L,
                                           MIA1321_REG_VALUE_08BIT, t[1]) }))

\* mia1321_enable_test_pattern: the register access is commented out
mia1321_enable_test_pattern(w, pattern) == { Ret(w, 0) }

\* case V4L2_CID_EXPOSURE of mia1321_set_ctrl
SetExposure(w, val) ==
  IF CurMode(w).hdr_mode = "NO_HDR"
  THEN Bind(mia1321_write_reg(w, MIA1321_REG_EXPOSURE_H,
                              MIA1321_REG_VALUE_08BIT,
                              MIA1321_FETCH_EXP_H(val)),
         LAMBDA w1 :
           Bind(mia1321_write_reg(w1, MIA1321_REG_EXPOSURE_M,
                                  MIA1321_REG_VALUE_08BIT,
                                  MIA1321_FETCH_EXP_M(val)),
             LAMBDA w2 :
               { Ret(w3, OrRet(w2.rv, w3.rv)) :
                   w3 \in mia1321_write_reg(w2, MIA1321_REG_EXPOSURE_L,
                                            MIA1321_REG_VALUE_08BIT,
                                            MIA1321_FETCH_EXP_L(val)) }))
  ELSE { Ret(w, 0) }

\* case V4L2_CID_ANALOGUE_GAIN of mia1321_set_ctrl
SetAnalogueGain(w, val) ==
  IF CurMode(w).hdr_mode = "NO_HDR"
  THEN mia1321_set_gain_reg(w, val)
  ELSE { Ret(w, 0) }

\* case V4L2_CID_VBLANK of mia1321_set_ctrl (second switch): the VTS register
\* writes are commented out
SetVblank(w, val) ==
  { Ret([w EXCEPT !.mia.cur_vts = CurMode(w).vts_def], 0) }

\* case V4L2_CID_HFLIP of mia1321_set_ctrl; val starts as 0 and keeps that
\* value when the read fails
SetHflip(w, ctrl_val) ==
  Bind(mia1321_read_reg(w, MIA1321_FLIP_REG, MIA1321_REG_VALUE_08BIT),
    LAMBDA w1 :
      LET val == IF w1.rv = 0 THEN w1.rd ELSE 0
          v2 == IF ctrl_val # 0 THEN SetBit(val, MIRROR_BIT_MASK)
                ELSE ClearBit(val, MIRROR_BIT_MASK)
      IN  { Ret(w2, w1.rv) : w2 \in mia1321_set_orientation_reg(w1, v2) })

\* case V4L2_CID_VFLIP of mia1321_set_ctrl
SetVflip(w, ctrl_val) ==
  Bind(mia1321_read_reg(w, MIA1321_MIRROR_REG, MIA1321_REG_VALUE_08BIT),
    LAMBDA w1 :
      LET val == IF w1.rv = 0 THEN w1.rd ELSE 0
          v2 == IF ctrl_val # 0 THEN SetBit(val, FLIP_BIT_MASK)
                ELSE ClearBit(val, FLIP_BIT_MASK)
      IN  { Ret(w2, w1.rv) : w2 \in mia1321_set_orientation_reg(w1, v2) })

\* The second switch of mia1321_set_ctrl
SetCtrlSwitch(w, id, val) ==
  CASE id = "V4L2_CID_EXPOSURE" -> SetExposure(w, val)
    [] id = "V4L2_CID_ANALOGUE_GAIN" -> SetAnalogueGain(w, val)
    [] id = "V4L2_CID_VBLANK" -> SetVblank(w, val)
    [] id = "V4L2_CID_TEST_PATTERN" -> mia1321_enable_test_pattern(w, val)
    [] id = "V4L2_CID_HFLIP" -> SetHflip(w, val)
    [] id = "V4L2_CID_VFLIP" -> SetVflip(w, val)
    [] OTHER -> { Ret(w, 0) }

\* ROUND_TO_RANGE of the control framework for a control of step 1
ClampToRange(v, lo, hi) == IF v < lo THEN lo ELSE IF v > hi THEN hi ELSE v

RECURSIVE mia1321_set_ctrl(_, _, _)
RECURSIVE v4l2_ctrl_modify_range(_, _, _, _, _, _)

\* __v4l2_ctrl_modify_range (v4l2-ctrls.c): a range check_range rejects is
\* not taken; the current value is brought into the new range and, when that
\* changes it, set through s_ctrl like any new value
v4l2_ctrl_modify_range(w, id, min, max, step, def) ==
  IF step = 0 \/ min > max \/ def < min \/ def > max
  THEN { Ret(w, -34) }
  ELSE
    LET w1 == [w EXCEPT !.ctrls[id].minimum = min, !.ctrls[id].maximum = max,
                        !.ctrls[id].step = step,
                        !.ctrls[id].default_value = def]
        new == ClampToRange(w1.ctrls[id].val, min, max)
    IN  IF new = w1.ctrls[id].val THEN { Ret(w1, 0) }
        ELSE IF id = "V4L2_CID_HBLANK"
        THEN { Ret([w1 EXCEPT !.ctrls[id].val = new], 0) }
        ELSE { IF w2.rv = 0 THEN [w2 EXCEPT !.ctrls[id].val = new] ELSE w2 :
                 w2 \in mia1321_set_ctrl(w1, id, new) }

\* A faulty mia1321_set_ctrl: the exposure range is updated only when the
\* sensor is in use
set_ctrl_RangeOnlyInUse(w, id, val) ==
  LET w2 == pm_runtime_get_if_in_use(w)
      ranged ==
        IF id = "V4L2_CID_VBLANK"
        THEN v4l2_ctrl_modify_range(
               w2, "V4L2_CID_EXPOSURE",
               w2.ctrls["V4L2_CID_EXPOSURE"].minimum,
               CurMode(w2).height + val - 1,
               w2.ctrls["V4L2_CID_EXPOSURE"].step,
               w2.ctrls["V4L2_CID_EXPOSURE"].default_value)
        ELSE {w2}
  IN  IF w2.rv = 0 THEN { Ret(w2, 0) }
      ELSE Bind(ranged,
             LAMBDA w1 :
               { Ret(pm_runtime_put(w3), w3.rv) :
                   w3 \in SetCtrlSwitch(w1, id, val) })

\* A faulty mia1321_set_ctrl: the result of pm_runtime_get_if_in_use is not
\* tested, the registers are written whether or not the sensor is in use
set_ctrl_WithoutInUseTest(w, id, val) ==
  LET ranged ==
        IF id = "V4L2_CID_VBLANK"
        THEN v4l2_ctrl_modify_range(
               w, "V4L2_CID_EXPOSURE",
               w.ctrls["V4L2_CID_EXPOSURE"].minimum,
               CurMode(w).height + val - 1,
               w.ctrls["V4L2_CID_EXPOSURE"].step,
               w.ctrls["V4L2_CID_EXPOSURE"].default_value)
        ELSE {w}
  IN  Bind(ranged,
        LAMBDA w1 :
          LET w2 == pm_runtime_get_if_in_use(w1)
          IN  { Ret(pm_runtime_put(w3), w3.rv) :
                  w3 \in SetCtrlSwitch(w2, id, val) })

\* mia1321_set_ctrl(ctrl) with ctrl->id = id and ctrl->val = val
mia1321_set_ctrl(w, id, val) ==
  LET ranged ==
        IF id = "V4L2_CID_VBLANK"
        THEN v4l2_ctrl_modify_range(
               w, "V4L2_CID_EXPOSURE",
               w.ctrls["V4L2_CID_EXPOSURE"].minimum,
               CurMode(w).height + val - 1,
               w.ctrls["V4L2_CID_EXPOSURE"].step,
               w.ctrls["V4L2_CID_EXPOSURE"].default_value)
        ELSE {w}
  IN  Bind(ranged,
        LAMBDA w1 :
          LET w2 == pm_runtime_get_if_in_use(w1)
          IN  IF w2.rv = 0 THEN { Ret(w2, 0) }
              ELSE { Ret(pm_runtime_put(w3), w3.rv) :
                       w3 \in SetCtrlSwitch(w2, id, val) })

\* v4l2_s_ctrl / VIDIOC_S_CTRL (v4l2-ctrls.c): the value is brought into the
\* control's range, s_ctrl is called only for a changed value, and the value
\* becomes the current one only when s_ctrl returned 0
v4l2_s_ctrl(w, id, val) ==
  LET c == w.ctrls[id]
      new == ClampToRange(val, c.minimum, c.maximum)
  IN  IF new = c.val THEN { Ret(w, 0) }
      ELSE { IF w1.rv = 0 THEN [w1 EXCEPT !.ctrls[id].val = new] ELSE w1 :
               w1 \in mia1321_set_ctrl(w, id, new) }

\* __v4l2_ctrl_handler_setup (v4l2-ctrls.c) from control i of CtrlOrder on:
\* s_ctrl with the current value of every control, stopping at the first error
RECURSIVE v4l2_ctrl_handler_setup_from(_, _)
v4l2_ctrl_handler_setup_from(w, i) ==
  IF i > Len(CtrlOrder) THEN { Ret(w, 0) }
  ELSE Bind(mia1321_set_ctrl(w, CtrlOrder[i], w.ctrls[CtrlOrder[i]].val),
         LAMBDA w1 :
           IF w1.rv # 0 THEN {w1}
           ELSE v4l2_ctrl_handler_setup_from(w1, i + 1))

v4l2_ctrl_handler_setup(w) == v4l2_ctrl_handler_setup_from(w, 1)

(***************************************************************************)
(* Streaming and power callbacks.                                          *)
(***************************************************************************)
\* The end of __mia1321_start_stream: the streaming command, whose result is
\* returned, then the two orientation writes, whose results are ignored
StartStreamTail(w) ==
  Bind(mia1321_write_reg(w, MIA1321_REG_CTRL_MODE, MIA1321_REG_VALUE_08BIT,
                         MIA1321_MODE_STREAMING),
    LAMBDA w1 :
      Bind(mia1321_write_reg(w1, MIA1321_FLIP_REG, MIA1321_REG_VALUE_08BIT, 1),
        LAMBDA w2 :
          { Ret(w3, w1.rv) :
              w3 \in mia1321_write_reg(w2, MIA1321_MIRROR_REG,
                                       MIA1321_REG_VALUE_08BIT, 1) }))

\* A faulty __mia1321_start_stream: the result of mia1321_write_array is not
\* checked
start_stream_IgnoringTableError(w) ==
  IF ~w.mia.is_thunderboot
  THEN Bind(mia1321_write_array(w, CurMode(w).reg_list),
         LAMBDA w1 :
           Bind(v4l2_ctrl_handler_setup(w1),
             LAMBDA w2 : IF w2.rv # 0 THEN {w2} ELSE StartStreamTail(w2)))
  ELSE StartStreamTail(w)

\* __mia1321_start_stream
mia1321_start_stream(w) ==
  IF ~w.mia.is_thunderboot
  THEN Bind(mia1321_write_array(w, CurMode(w).reg_list),
         LAMBDA w1 :
           IF w1.rv # 0 THEN {w1}
           ELSE Bind(v4l2_ctrl_handler_setup(w1),
                  LAMBDA w2 : IF w2.rv # 0 THEN {w2} ELSE StartStreamTail(w2)))
  ELSE StartStreamTail(w)

\* __mia1321_stop_stream
mia1321_stop_stream(w) ==
  LET w1 == IF w.mia.is_thunderboot
            THEN pm_runtime_put([w EXCEPT !.mia.is_first_streamoff = TRUE])
            ELSE w
  IN  mia1321_write_reg(w1, MIA1321_REG_CTRL_MODE, MIA1321_REG_VALUE_08BIT,
                        MIA1321_MODE_SW_STANDBY)

\* A faulty mia1321_s_stream: the runtime-PM reference is kept when
\* __mia1321_start_stream fails
s_stream_KeepsReferenceOnStartError(w, on, tb_ng) ==
  LET o == (on # 0)
  IN  IF o = w.mia.streaming THEN { Ret(w, 0) }
      ELSE IF o
      THEN
        LET ng == IF w.mia.is_thunderboot /\ tb_ng
                  THEN mia1321_power_on([w EXCEPT !.mia.is_thunderboot = FALSE])
                  ELSE {w}
        IN  Bind(ng,
              LAMBDA w1 :
                Bind(pm_runtime_get_sync(w1),
                  LAMBDA w2 :
                    IF w2.rv < 0
                    THEN { Ret(pm_runtime_put_noidle(w2), w2.rv) }
                    ELSE Bind(mia1321_start_stream(w2),
                           LAMBDA w3 :
                             IF w3.rv # 0
                             THEN { w3 }
                             ELSE { [w3 EXCEPT !.mia.streaming = TRUE] })))
      ELSE { Ret([pm_runtime_put(w1) EXCEPT !.mia.streaming = FALSE], 0) :
               w1 \in mia1321_stop_stream(w) }

\* mia1321_s_stream(sd, on); tb_ng: rkisp_tb_get_state() == RKISP_TB_NG
mia1321_s_stream(w, on, tb_ng) ==
  LET o == (on # 0)
  IN  IF o = w.mia.streaming THEN { Ret(w, 0) }
      ELSE IF o
      THEN
        LET ng == IF w.mia.is_thunderboot /\ tb_ng
                  THEN mia1321_power_on([w EXCEPT !.mia.is_thunderboot = FALSE])
                  ELSE {w}
        IN  Bind(ng,
              LAMBDA w1 :
                Bind(pm_runtime_get_sync(w1),
                  LAMBDA w2 :
                    IF w2.rv < 0
                    THEN { Ret(pm_runtime_put_noidle(w2), w2.rv) }
                    ELSE Bind(mia1321_start_stream(w2),
                           LAMBDA w3 :
                             IF w3.rv # 0
                             THEN { Ret(pm_runtime_put(w3), w3.rv) }
                             ELSE { [w3 EXCEPT !.mia.streaming = TRUE] })))
      ELSE { Ret([pm_runtime_put(w1) EXCEPT !.mia.streaming = FALSE], 0) :
               w1 \in mia1321_stop_stream(w) }

\* A faulty mia1321_s_power: the runtime-PM reference is kept when
\* pm_runtime_get_sync fails
s_power_KeepsReferenceOnResumeError(w, on) ==
  IF w.mia.power_on = (on # 0) THEN { Ret(w, 0) }
  ELSE IF on # 0
  THEN Bind(pm_runtime_get_sync(w),
         LAMBDA w1 :
           IF w1.rv < 0
           THEN { w1 }
           ELSE IF ~w1.mia.is_thunderboot
           THEN Bind(mia1321_write_array(w1, mia1321_global_regs),
                  LAMBDA w2 :
                    IF w2.rv # 0
                    THEN { Ret(pm_runtime_put_noidle(w2), w2.rv) }
                    ELSE { [w2 EXCEPT !.mia.power_on = TRUE] })
           ELSE { [w1 EXCEPT !.mia.power_on = TRUE] })
  ELSE { Ret([pm_runtime_put(w) EXCEPT !.mia.power_on = FALSE], 0) }

\* mia1321_s_power(sd, on)
mia1321_s_power(w, on) ==
  IF w.mia.power_on = (on # 0) THEN { Ret(w, 0) }
  ELSE IF on # 0
  THEN Bind(pm_runtime_get_sync(w),
         LAMBDA w1 :
           IF w1.rv < 0
           THEN { Ret(pm_runtime_put_noidle(w1), w1.rv) }
           ELSE IF ~w1.mia.is_thunderboot
           THEN Bind(mia1321_write_array(w1, mia1321_global_regs),
                  LAMBDA w2 :
                    IF w2.rv # 0
                    THEN { Ret(pm_runtime_put_noidle(w2), w2.rv) }
                    ELSE { [w2 EXCEPT !.mia.power_on = TRUE] })
           ELSE { [w1 EXCEPT !.mia.power_on = TRUE] })
  ELSE { Ret([pm_runtime_put(w) EXCEPT !.mia.power_on = FALSE], 0) }

(***************************************************************************)
(* Pad format and private ioctls.                                          *)
(***************************************************************************)
\* abs() of the difference of two u32: the kernel's abs() reads an unsigned
\* int as a signed int, so for sizes below 2^31 it is the absolute value
Abs32(x) == IF x < 0 THEN -x ELSE x

\* mia1321_get_reso_dist
mia1321_get_reso_dist(mode, width, height) ==
  Abs32(mode.width - width) + Abs32(mode.height - height)

\* The loop of mia1321_find_best_fit from mode i on
RECURSIVE BestFitLoop(_, _, _, _, _)
BestFitLoop(width, height, i, cur_best_fit, cur_best_fit_dist) ==
  IF i >= NumModes THEN cur_best_fit
  ELSE
    LET dist == mia1321_get_reso_dist(supported_modes[i], width, height)
    IN  IF cur_best_fit_dist = -1 \/ dist < cur_best_fit_dist
        THEN BestFitLoop(width, height, i + 1, i, dist)
        ELSE BestFitLoop(width, height, i + 1, cur_best_fit,
                         cur_best_fit_dist)

\* A faulty mia1321_find_best_fit: the loop compares with <=, so that the last
\* of the modes at the smallest distance is returned
find_best_fit_LastOnTies(width, height) ==
  LET dist(i) == mia1321_get_reso_dist(supported_modes[i], width, height)
      best == { i \in DOMAIN supported_modes :
                  \A j \in DOMAIN supported_modes : dist(i) <= dist(j) }
  IN  CHOOSE i \in best : \A j \in best : j <= i

\* mia1321_find_best_fit: the index of the mode returned
mia1321_find_best_fit(width, height) == BestFitLoop(width, height, 0, 0, -1)

\* the hblank / vblank range update set_fmt and RKMODULE_SET_HDR_CFG make for
\* the mode cur_mode points to; the results are ignored
ModifyBlankRanges(w) ==
  LET mode == CurMode(w)
      h_blank == mode.hts_def - mode.width
      vblank_def == mode.vts_def - mode.height
  IN  Bind(v4l2_ctrl_modify_range(w, "V4L2_CID_HBLANK", h_blank, h_blank, 1,
                                  h_blank),
        LAMBDA w1 :
          v4l2_ctrl_modify_range(w1, "V4L2_CID_VBLANK", vblank_def,
                                 MIA1321_VTS_MAX - mode.height, 1,
                                 vblank_def))

\* mia1321_set_fmt with fmt->which = which and the requested fmt->format
\* (code, width, height); out is fmt->format as returned
mia1321_set_fmt(w, which, code, width, height) ==
  LET m == mia1321_find_best_fit(width, height)
      mode == supported_modes[m]
      format == [code |-> mode.bus_fmt, width |-> mode.width,
                 height |-> mode.height, field |-> "V4L2_FIELD_NONE"]
      w1 == [w EXCEPT !.out = format]
  IN  IF which = "V4L2_SUBDEV_FORMAT_TRY"
      THEN { Ret([w1 EXCEPT !.try_fmt = format], 0) }
      ELSE { Ret([w2 EXCEPT !.mia.cur_fps = mode.max_fps], 0) :
               w2 \in ModifyBlankRanges([w1 EXCEPT !.mia.cur_mode = m]) }

\* A faulty loop of RKMODULE_SET_HDR_CFG: hdr_mode is not compared, the first
\* mode of the current size is taken
HdrCfgLoop_IgnoringHdrMode(width, height, hdr_mode, i) ==
  LET hits == { j \in i..(NumModes - 1) :
                  /\ width = supported_modes[j].width
                  /\ height = supported_modes[j].height }
  IN  IF hits = {} THEN NumModes
      ELSE CHOOSE j \in hits : \A k \in hits : j <= k

\* The loop of RKMODULE_SET_HDR_CFG from mode i on: the index of the first
\* mode of the current size with the requested hdr_mode, NumModes if none
RECURSIVE HdrCfgLoop(_, _, _, _)
HdrCfgLoop(width, height, hdr_mode, i) ==
  IF i >= NumModes THEN NumModes
  ELSE IF /\ width = supported_modes[i].width
          /\ height = supported_modes[i].height
          /\ supported_modes[i].hdr_mode = hdr_mode
  THEN i
  ELSE HdrCfgLoop(width, height, hdr_mode, i + 1)

\* mia1321_ioctl(sd, cmd, arg)
mia1321_ioctl(w, cmd, arg) ==
  CASE cmd = "RKMODULE_GET_HDR_CFG" ->
         { Ret([w EXCEPT !.out = [esp_mode |-> "HDR_NORMAL_VC",
                                  hdr_mode |-> CurMode(w).hdr_mode]], 0) }
    [] cmd = "RKMODULE_SET_HDR_CFG" ->
         LET i == HdrCfgLoop(CurMode(w).width, CurMode(w).height, arg, 0)
         IN  IF i = NumModes THEN { Ret(w, -EINVAL) }
             ELSE { Ret(w2, 0) :
                      w2 \in ModifyBlankRanges([w EXCEPT !.mia.cur_mode = i]) }
    [] cmd = "PREISP_CMD_SET_HDRAE_EXP" -> { Ret(w, 0) }
    [] cmd = "RKMODULE_SET_QUICK_STREAM" ->
         mia1321_write_reg(w, MIA1321_REG_CTRL_MODE, MIA1321_REG_VALUE_08BIT,
                           IF arg # 0 THEN MIA1321_MODE_STREAMING
                           ELSE MIA1321_MODE_SW_STANDBY)
    [] OTHER -> { Ret(w, -ENOIOCTLCMD) }

\* mia1321_get_fmt with fmt->which = which and fmt->pad = pad; out is
\* fmt->format and, for the active format, fmt->reserved[0]
mia1321_get_fmt(w, which, pad) ==
  LET mode == CurMode(w)
  IN  IF which = "V4L2_SUBDEV_FORMAT_TRY"
      THEN { Ret([w EXCEPT !.out = w.try_fmt], 0) }
      ELSE { Ret([w EXCEPT !.out =
                    [width |-> mode.width, height |-> mode.height,
                     code |-> mode.bus_fmt, field |-> "V4L2_FIELD_NONE",
                     reserved0 |->
                       IF pad < PAD_MAX /\ mode.hdr_mode # "NO_HDR"
                       THEN mode.vc[pad + 1]
                       ELSE mode.vc[PAD0 + 1]]], 0) }

\* the V4L2_MBUS_CSI2_n_LANE flag is bit n - 1 of the flags
LaneFlag ==
  << "V4L2_MBUS_CSI2_1_LANE", "V4L2_MBUS_CSI2_2_LANE",
     "V4L2_MBUS_CSI2_3_LANE", "V4L2_MBUS_CSI2_4_LANE" >>

\* mia1321_g_mbus_config; out is *config, its flags as the set of bits set
mia1321_g_mbus_config(w) ==
  LET mode == CurMode(w)
      val == { LaneFlag[MIA1321_LANES], "V4L2_MBUS_CSI2_CHANNEL_0",
               "V4L2_MBUS_CSI2_CONTINUOUS_CLOCK" }
               \cup (IF mode.hdr_mode # "NO_HDR"
                     THEN {"V4L2_MBUS_CSI2_CHANNEL_1"} ELSE {})
               \cup (IF mode.hdr_mode = "HDR_X3"
                     THEN {"V4L2_MBUS_CSI2_CHANNEL_2"} ELSE {})
  IN  { Ret([w EXCEPT !.out = [type |-> "V4L2_MBUS_CSI2_DPHY",
                               flags |-> val]], 0) }

\* mia1321_enum_frame_sizes with fse->index = index and fse->code = code
mia1321_enum_frame_sizes(w, index, code) ==
  IF index >= NumModes THEN { Ret(w, -EINVAL) }
  ELSE IF code # supported_modes[0].bus_fmt THEN { Ret(w, -EINVAL) }
  ELSE { Ret([w EXCEPT !.out =
                [min_width |-> supported_modes[index].width,
                 max_width |-> supported_modes[index].width,
                 max_height |-> supported_modes[index].height,
                 min_height |-> supported_modes[index].height]], 0) }

\* mia1321_enum_frame_interval with fie->index = index
mia1321_enum_frame_interval(w, index) ==
  IF index >= NumModes THEN { Ret(w, -EINVAL) }
  ELSE { Ret([w EXCEPT !.out =
                [code |-> supported_modes[index].bus_fmt,
                 width |-> supported_modes[index].width,
                 height |-> supported_modes[index].height,
                 interval |-> supported_modes[index].max_fps,
                 reserved0 |-> supported_modes[index].hdr_mode]], 0) }

(***************************************************************************)
(* Probe and remove.                                                       *)
(***************************************************************************)
\* A step of probe that can fail with -err: a resource lookup, an allocation,
\* a registration with the media or async framework
Fallible(w, name, err) ==
  { Ret(Emit(w, Ev(name, 0, 0, TRUE)), 0) }
    \cup (IF CanFail(w)
          THEN { [Emit(w, Ev(name, 0, 0, FALSE)) EXCEPT
                    !.rv = -err, !.faults = @ + 1] }
          ELSE {})

\* the controls mia1321_initialize_controls creates for mode
InitialCtrls(mode) ==
  LET std(min, max, step, def) ==
        [val |-> def, minimum |-> min, maximum |-> max, step |-> step,
         default_value |-> def]
      h_blank == mode.hts_def - mode.width
      vblank_def == mode.vts_def - mode.height
  IN  [id \in {"V4L2_CID_HBLANK"} \cup { CtrlOrder[i] : i \in DOMAIN CtrlOrder }
         |->
       CASE id = "V4L2_CID_HBLANK" -> std(h_blank, h_blank, 1, h_blank)
         [] id = "V4L2_CID_VBLANK" ->
              std(vblank_def, MIA1321_VTS_MAX - mode.height, 1, vblank_def)
         [] id = "V4L2_CID_EXPOSURE" ->
              std(MIA1321_EXPOSURE_MIN, mode.vts_def - 1,
                  MIA1321_EXPOSURE_STEP, mode.exp_def)
         [] id = "V4L2_CID_ANALOGUE_GAIN" ->
              std(MIA1321_GAIN_MIN, MIA1321_GAIN_MAX, MIA1321_GAIN_STEP,
                  MIA1321_GAIN_DEFAULT)
         [] id = "V4L2_CID_TEST_PATTERN" -> std(0, TestPatternMax, 1, 0)
         [] id = "V4L2_CID_HFLIP" -> std(0, 1, 1, 0)
         [] id = "V4L2_CID_VFLIP" -> std(0, 1, 1, 0)]

\* mia1321_initialize_controls
mia1321_initialize_controls(w) ==
  { IF w1.rv = 0
    THEN [w1 EXCEPT !.ctrls = InitialCtrls(CurMode(w)),
                    !.mia.cur_fps = CurMode(w).max_fps]
    ELSE w1 :
      w1 \in Fallible(w, "v4l2_ctrl_handler_init", 12) }

\* v4l2_ctrl_handler_free(&mia1321->ctrl_handler)
v4l2_ctrl_handler_free(w) ==
  [Emit(w, Ev("v4l2_ctrl_handler_free", 0, 0, TRUE)) EXCEPT !.ctrls = <<>>]

\* A faulty mia1321_check_sensor_id: any id that could be read is accepted
check_sensor_id_AnyId(w) ==
  IF w.mia.is_thunderboot THEN { Ret(w, 0) }
  ELSE { IF w1.rv # 0 THEN Ret(w1, -ENODEV) ELSE Ret(w1, 0) :
           w1 \in mia1321_read_reg(w, MIA1321_REG_CHIP_ID,
                                   MIA1321_REG_VALUE_16BIT) }

\* mia1321_check_sensor_id: id keeps its initial 0 when the read fails
mia1321_check_sensor_id(w) ==
  IF w.mia.is_thunderboot THEN { Ret(w, 0) }
  ELSE { LET id == IF w1.rv = 0 THEN w1.rd ELSE 0
         IN  IF id # CHIP_ID THEN Ret(w1, -ENODEV) ELSE Ret(w1, 0) :
           w1 \in mia1321_read_reg(w, MIA1321_REG_CHIP_ID,
                                   MIA1321_REG_VALUE_16BIT) }

\* the end of a successful mia1321_probe: runtime PM is switched on
ProbePmEnable(w) ==
  LET w1 == [w EXCEPT !.pm.status = "active", !.pm.enabled = TRUE,
                      !.bound = "bound"]
  IN  IF w1.mia.is_thunderboot
      THEN { Ret(w2, 0) : w2 \in pm_runtime_get_sync(w1) }
      ELSE { Ret(rpm_idle(w1), 0) }

\* the error labels of mia1321_probe
ProbeErrPowerOff(w) ==
  [v4l2_ctrl_handler_free(mia1321_power_off(w)) EXCEPT
     !.bound = "failed", !.rv = w.rv]

ProbeErrFreeHandler(w) ==
  [v4l2_ctrl_handler_free(w) EXCEPT !.bound = "failed", !.rv = w.rv]

\* mia1321_probe
mia1321_probe(w) ==
  LET fresh ==
        [w EXCEPT !.mia.is_thunderboot = w.platform.thunderboot,
                  !.mia.cur_mode = 0,
                  !.board.reset = IF w.platform.thunderboot THEN @ ELSE 0,
                  !.board.pwdn = IF w.platform.thunderboot THEN @ ELSE 0]
  IN  Bind(Fallible(fresh, "get_resources", EINVAL),
        LAMBDA w1 :
          IF w1.rv # 0 THEN { [w1 EXCEPT !.bound = "failed"] }
          ELSE Bind(mia1321_initialize_controls(w1),
            LAMBDA w2 :
              IF w2.rv # 0 THEN { [w2 EXCEPT !.bound = "failed"] }
              ELSE Bind(mia1321_power_on(w2),
                LAMBDA w3 :
                  IF w3.rv # 0 THEN { ProbeErrFreeHandler(w3) }
                  ELSE Bind(mia1321_check_sensor_id(w3),
                    LAMBDA w4 :
                      IF w4.rv # 0 THEN { ProbeErrPowerOff(w4) }
                      ELSE Bind(Fallible(w4, "media_entity_pads_init", 12),
                        LAMBDA w5 :
                          IF w5.rv < 0 THEN { ProbeErrPowerOff(w5) }
                          ELSE Bind(Fallible(w5, "v4l2_async_register_subdev_sensor_common",
                                             12),
                            LAMBDA w6 :
                              IF w6.rv # 0 THEN { ProbeErrPowerOff(w6) }
                              ELSE ProbePmEnable(w6)))))))

\* mia1321_remove
mia1321_remove(w) ==
  LET w1 == v4l2_ctrl_handler_free(
              Emit(w, Ev("v4l2_async_unregister_subdev", 0, 0, TRUE)))
      w2 == [w1 EXCEPT !.pm.enabled = FALSE, !.pm.idle_req = FALSE]
      w3 == IF w2.pm.status # "suspended" THEN mia1321_power_off(w2) ELSE w2
  IN  Ret([w3 EXCEPT !.pm.status = "suspended", !.bound = "removed"], 0)

(***************************************************************************)
(* Initial states: before probe.  The struct is zeroed (devm_kzalloc), the *)
(* device is runtime-suspended with runtime PM disabled, nothing is        *)
(* enabled.  With thunderboot the sensor was started before the kernel, so *)
(* its reset and pwdn lines are already high.                              *)
(***************************************************************************)
\* values the sensor can answer for the 16-bit read of MIA1321_REG_CHIP_ID
ChipIds == { CHIP_ID, 0, 4096 }

Platforms ==
  [thunderboot : BOOLEAN, has_reset : BOOLEAN, has_pwdn : BOOLEAN,
   chip_id : ChipIds]

\* the threads that can be inside callbacks of the sub-device at once
Threads == { "t1", "t2" }

\* a thread in callback fn at position pc: the arguments of the call and the
\* callback's local variables (mode, w / width, h / height, ret, the output
\* structure) with the trace of the operations it issued
Frame(fn, pc, args) ==
  [fn |-> fn, pc |-> pc, args |-> args, mode |-> 0, width |-> 0, height |-> 0,
   rv |-> 0, out |-> <<>>, log |-> <<>>, cold |-> FALSE]

\* a thread outside every callback
Idle == Frame("none", "idle", <<>>)

InitOn(P) ==
  /\ platform \in P
  /\ bound = "unbound"
  /\ mia1321 = [streaming |-> FALSE, power_on |-> FALSE, cur_mode |-> 0,
                cur_fps |-> [numerator |-> 0, denominator |-> 0],
                cur_vts |-> 0, is_thunderboot |-> FALSE,
                is_first_streamoff |-> FALSE, is_mirror |-> FALSE,
                is_flip |-> FALSE]
  /\ ctrls = <<>>
  /\ try_fmt = [code |-> "0", width |-> 0, height |-> 0, field |-> "0"]
  /\ sensor = [r \in TrackedRegs |->
                 IF r = MIA1321_REG_CHIP_ID THEN platform.chip_id ELSE 0]
  /\ pm = [usage_count |-> 0, status |-> "suspended", enabled |-> FALSE,
           idle_req |-> FALSE, runtime_error |-> FALSE]
  /\ board = [xvclk |-> 0, supplies |-> 0,
              reset |-> IF platform.thunderboot THEN 1 ELSE 0,
              pwdn |-> IF platform.thunderboot THEN 1 ELSE 0,
              pins |-> "none"]
  /\ call = [op |-> "none", args |-> <<>>, ret |-> 0, out |-> <<>>,
             log |-> <<>>, cold |-> FALSE]
  /\ mutex = "free"
  /\ threads = [t \in Threads |-> Idle]
  /\ access = [thread |-> "none", fn |-> "none", kind |-> "none",
               locked |-> TRUE]

(***************************************************************************)
(* Actions: one per callback.                                              *)
(***************************************************************************)
\* the callback named op, called with args, ends in world w
Commit(w, op, args) ==
  /\ platform' = w.platform
  /\ bound' = w.bound
  /\ mia1321' = w.mia
  /\ ctrls' = w.ctrls
  /\ try_fmt' = w.try_fmt
  /\ sensor' = w.regs
  /\ pm' = w.pm
  /\ board' = w.board
  /\ call' = [op |-> op, args |-> args, ret |-> w.rv, out |-> w.out,
              log |-> w.log, cold |-> w.cold]
  /\ UNCHANGED <<mutex, threads, access>>

\* the sub-device is registered and its callbacks can be called
Callable == bound = "bound" /\ pm.usage_count > -MaxUnderflow

Probe ==
  /\ bound = "unbound"
  /\ \E w \in mia1321_probe(World) : Commit(w, "probe", <<>>)

Remove ==
  /\ bound = "bound"
  /\ Commit(mia1321_remove(World), "remove", <<>>)

\* the idle request queued by pm_runtime_put is run by the PM workqueue
RuntimeIdle ==
  /\ bound = "bound"
  /\ pm.idle_req
  /\ Commit(rpm_idle(World), "runtime_idle", <<>>)

SStream(on, tb_ng) ==
  /\ Callable
  /\ \E w \in mia1321_s_stream(World, on, tb_ng) :
       Commit(w, "s_stream", [on |-> on, tb_ng |-> tb_ng])

SPower(on) ==
  /\ Callable
  /\ \E w \in mia1321_s_power(World, on) : Commit(w, "s_power", [on |-> on])

SCtrl(id, val) ==
  /\ Callable
  /\ \E w \in v4l2_s_ctrl(World, id, val) :
       Commit(w, "s_ctrl", [id |-> id, val |-> val])

SetFmt(which, code, width, height) ==
  /\ Callable
  /\ \E w \in mia1321_set_fmt(World, which, code, width, height) :
       Commit(w, "set_fmt", [which |-> which, code |-> code,
                             width |-> width, height |-> height])

Ioctl(cmd, arg) ==
  /\ Callable
  /\ \E w \in mia1321_ioctl(World, cmd, arg) :
       Commit(w, "ioctl", [cmd |-> cmd, arg |-> arg])

GetFmt(which, pad) ==
  /\ Callable
  /\ \E w \in mia1321_get_fmt(World, which, pad) :
       Commit(w, "get_fmt", [which |-> which, pad |-> pad])

GMbusConfig ==
  /\ Callable
  /\ \E w \in mia1321_g_mbus_config(World) : Commit(w, "g_mbus_config", <<>>)

EnumFrameSizes(index, code) ==
  /\ Callable
  /\ \E w \in mia1321_enum_frame_sizes(World, index, code) :
       Commit(w, "enum_frame_sizes", [index |-> index, code |-> code])

EnumFrameInterval(index) ==
  /\ Callable
  /\ \E w \in mia1321_enum_frame_interval(World, index) :
       Commit(w, "enum_frame_interval", [index |-> index])

(***************************************************************************)
(* Specifications.  Each one is the driver under an environment that calls *)
(* a subset of its callbacks with arguments from a small set.              *)
(***************************************************************************)
\* a board with both GPIOs, thunderboot disabled, whose sensor answers CHIP_ID
NormalBoard ==
  [thunderboot |-> FALSE, has_reset |-> TRUE, has_pwdn |-> TRUE,
   chip_id |-> CHIP_ID]

\* Binding, unbinding and powering the device on every platform
Init == InitOn(Platforms)

Next ==
  \/ Probe
  \/ Remove
  \/ RuntimeIdle
  \/ \E on \in {0, 1} : SPower(on)

Spec == Init /\ [][Next]_vars

\* The other specifications run on NormalBoard
InitNormal == InitOn({NormalBoard})

\* Starting and stopping the stream
NextStream ==
  \/ Probe
  \/ RuntimeIdle
  \/ \E on \in {0, 1} : SStream(on, FALSE)
  \/ \E stream \in {0, 1} : Ioctl("RKMODULE_SET_QUICK_STREAM", stream)

SpecStream == InitNormal /\ [][NextStream]_vars

\* Selecting a mode and asking for it: set_fmt, get_fmt, the HDR configuration
\* ioctls, the bus configuration and the enumerations
FmtCodes == { "MEDIA_BUS_FMT_SGRBG10_1X10", "MEDIA_BUS_FMT_SGRBG12_1X12" }
FmtWidths == { 640, 1280 }
FmtHeights == { 720, 1080 }
HdrModes == { "NO_HDR", "HDR_X2" }
FmtPads == { PAD0, PAD0 + 1 }
EnumIndexes == 0..NumModes

NextFmt ==
  \/ Probe
  \/ RuntimeIdle
  \/ \E on \in {0, 1} : SStream(on, FALSE)
  \/ \E which \in {"V4L2_SUBDEV_FORMAT_TRY", "V4L2_SUBDEV_FORMAT_ACTIVE"},
        code \in FmtCodes, width \in FmtWidths, height \in FmtHeights :
       SetFmt(which, code, width, height)
  \/ \E cmd \in {"RKMODULE_GET_HDR_CFG", "RKMODULE_SET_HDR_CFG"},
        hdr_mode \in HdrModes :
       Ioctl(cmd, hdr_mode)
  \/ \E which \in {"V4L2_SUBDEV_FORMAT_TRY", "V4L2_SUBDEV_FORMAT_ACTIVE"},
        pad \in FmtPads :
       GetFmt(which, pad)
  \/ GMbusConfig
  \/ \E index \in EnumIndexes, code \in FmtCodes : EnumFrameSizes(index, code)
  \/ \E index \in EnumIndexes : EnumFrameInterval(index)

SpecFmt == InitNormal /\ [][NextFmt]_vars

\* Setting the analogue gain
GainInputs == { 1500, 1600, 1750, 25600, 25601, 30000, 47998, 48000 }

NextGain ==
  \/ Probe
  \/ RuntimeIdle
  \/ \E on \in {0, 1} : SPower(on)
  \/ \E gain \in GainInputs : SCtrl("V4L2_CID_ANALOGUE_GAIN", gain)

SpecGain == InitNormal /\ [][NextGain]_vars

\* Setting the exposure and the vertical blanking
ExposureInputs == { 1, 255, 256, 1199, 4660, 65534 }
VblankInputs == { 120, 1000, 64455 }

NextExposure ==
  \/ Probe
  \/ RuntimeIdle
  \/ \E on \in {0, 1} : SPower(on)
  \/ \E exposure \in ExposureInputs : SCtrl("V4L2_CID_EXPOSURE", exposure)
  \/ \E vblank \in VblankInputs : SCtrl("V4L2_CID_VBLANK", vblank)

SpecExposure == InitNormal /\ [][NextExposure]_vars

\* Setting the orientation and the test pattern, streaming on and off
NextOrient ==
  \/ Probe
  \/ RuntimeIdle
  \/ \E on \in {0, 1} : SStream(on, FALSE)
  \/ \E id \in {"V4L2_CID_HFLIP", "V4L2_CID_VFLIP", "V4L2_CID_TEST_PATTERN"},
        val \in {0, 1} :
       SCtrl(id, val)

SpecOrient == InitNormal /\ [][NextOrient]_vars

\* Setting every control that has mia1321_ctrl_ops, with the sensor powered
\* through s_power or not
CtrlInputs ==
  [V4L2_CID_VBLANK |-> {1000},
   V4L2_CID_EXPOSURE |-> {1199},
   V4L2_CID_ANALOGUE_GAIN |-> {1600},
   V4L2_CID_TEST_PATTERN |-> {1},
   V4L2_CID_HFLIP |-> {1},
   V4L2_CID_VFLIP |-> {1}]

NextCtrl ==
  \/ Probe
  \/ RuntimeIdle
  \/ \E on \in {0, 1} : SPower(on)
  \/ \E id \in DOMAIN CtrlInputs : \E val \in CtrlInputs[id] : SCtrl(id, val)

SpecCtrl == InitNormal /\ [][NextCtrl]_vars

\* The life of the device with and without thunderboot, on hardware that
\* does not fail: no transfer and no clock or regulator enable fails, so that
\* every imbalance is the driver's own.  rkisp_tb_get_state() can answer
\* RKISP_TB_NG at any stream start.
TbBoards == { [NormalBoard EXCEPT !.thunderboot = tb] : tb \in BOOLEAN }

InitTb == InitOn(TbBoards)

\* the callback ended in w without any failing operation
Reliable(w) == w.faults = 0

ProbeOk ==
  /\ bound = "unbound"
  /\ \E w \in mia1321_probe(World) : Reliable(w) /\ Commit(w, "probe", <<>>)

SStreamOk(on, tb_ng) ==
  /\ Callable
  /\ \E w \in mia1321_s_stream(World, on, tb_ng) :
       Reliable(w) /\ Commit(w, "s_stream", [on |-> on, tb_ng |-> tb_ng])

SPowerOk(on) ==
  /\ Callable
  /\ \E w \in mia1321_s_power(World, on) :
       Reliable(w) /\ Commit(w, "s_power", [on |-> on])

SCtrlOk(id, val) ==
  /\ Callable
  /\ \E w \in v4l2_s_ctrl(World, id, val) :
       Reliable(w) /\ Commit(w, "s_ctrl", [id |-> id, val |-> val])

NextTb ==
  \/ ProbeOk
  \/ Remove
  \/ RuntimeIdle
  \/ \E on \in {0, 1} : SPowerOk(on)
  \/ \E on \in {0, 1}, tb_ng \in BOOLEAN : SStreamOk(on, tb_ng)
  \/ \E val \in {0, 1} : SCtrlOk("V4L2_CID_TEST_PATTERN", val)

SpecTb == InitTb /\ [][NextTb]_vars

\* The same, with the PM workqueue running every idle request that
\* pm_runtime_put queued
SpecTbFair == SpecTb /\ WF_vars(RuntimeIdle)

(***************************************************************************)
(* Callbacks running concurrently.  Each thread runs one callback at a     *)
(* time, one statement (or one run of statements on local variables) per   *)
(* step; mutex_lock blocks while another thread holds mia1321->mutex.      *)
(***************************************************************************)
\* the state w of the driver and the device becomes the current one
Store(w) ==
  /\ platform' = w.platform
  /\ bound' = w.bound
  /\ mia1321' = w.mia
  /\ ctrls' = w.ctrls
  /\ try_fmt' = w.try_fmt
  /\ sensor' = w.regs
  /\ pm' = w.pm
  /\ board' = w.board

\* thread t is in callback fn at position pc
At(t, fn, pc) == threads[t].fn = fn /\ threads[t].pc = pc

\* thread t continues with frame f
Goto(t, f) == threads' = [threads EXCEPT ![t] = f]

\* thread t reads or writes cur_mode, or calls __v4l2_ctrl_modify_range
Touch(t, kind) ==
  access' = [thread |-> t, fn |-> threads[t].fn, kind |-> kind,
             locked |-> mutex = t]

\* the operations of w, added to the trace of frame f
Traced(f, w) ==
  [f EXCEPT !.log = @ \o w.log, !.cold = @ \/ w.cold]

\* thread t enters callback fn
Enter(t, fn, pc, args) ==
  /\ Callable
  /\ threads[t] = Idle
  /\ Goto(t, Frame(fn, pc, args))
  /\ UNCHANGED <<platform, bound, mia1321, ctrls, try_fmt, sensor, pm, board,
                 call, mutex, access>>

\* thread t returns from its callback
Leave(t) ==
  /\ call' = [op |-> threads[t].fn, args |-> threads[t].args,
              ret |-> threads[t].rv, out |-> threads[t].out,
              log |-> threads[t].log, cold |-> threads[t].cold]
  /\ Goto(t, Idle)

\* where each callback continues once it holds the mutex
AfterLock ==
  [set_fmt |-> "fit", get_fmt |-> "fill", s_stream |-> "body"]

\* mutex_lock(&mia1321->mutex)
MutexLock(t) ==
  /\ threads[t].pc = "lock"
  /\ mutex = "free"
  /\ mutex' = t
  /\ Goto(t, [threads[t] EXCEPT !.pc = AfterLock[threads[t].fn]])
  /\ UNCHANGED <<platform, bound, mia1321, ctrls, try_fmt, sensor, pm, board,
                 call, access>>

\* mutex_unlock(&mia1321->mutex) and the return that follows it
MutexUnlock(t) ==
  /\ threads[t].pc = "unlock"
  /\ mutex = t
  /\ mutex' = "free"
  /\ Leave(t)
  /\ UNCHANGED <<platform, bound, mia1321, ctrls, try_fmt, sensor, pm, board,
                 access>>

\* mia1321_set_fmt: find_best_fit, the format returned and, for a TRY format,
\* the pad's try format
SetFmtFit(t) ==
  /\ At(t, "set_fmt", "fit")
  /\ LET a == threads[t].args
         m == mia1321_find_best_fit(a.width, a.height)
         mode == supported_modes[m]
         format == [code |-> mode.bus_fmt, width |-> mode.width,
                    height |-> mode.height, field |-> "V4L2_FIELD_NONE"]
         f == [threads[t] EXCEPT !.mode = m, !.out = format]
     IN  IF a.which = "V4L2_SUBDEV_FORMAT_TRY"
         THEN /\ try_fmt' = format
              /\ Goto(t, [f EXCEPT !.pc = "unlock"])
         ELSE /\ try_fmt' = try_fmt
              /\ Goto(t, [f EXCEPT !.pc = "cur_mode"])
  /\ UNCHANGED <<platform, bound, mia1321, ctrls, sensor, pm, board, call,
                 mutex, access>>

\* mia1321_set_fmt: mia1321->cur_mode = mode
SetFmtCurMode(t) ==
  /\ At(t, "set_fmt", "cur_mode")
  /\ mia1321' = [mia1321 EXCEPT !.cur_mode = threads[t].mode]
  /\ Touch(t, "write_cur_mode")
  /\ Goto(t, [threads[t] EXCEPT !.pc = "hblank"])
  /\ UNCHANGED <<platform, bound, ctrls, try_fmt, sensor, pm, board, call,
                 mutex>>

\* mia1321_set_fmt: __v4l2_ctrl_modify_range(mia1321->hblank, ...)
SetFmtHblank(t) ==
  /\ At(t, "set_fmt", "hblank")
  /\ LET mode == supported_modes[threads[t].mode]
         h_blank == mode.hts_def - mode.width
     IN  \E w \in v4l2_ctrl_modify_range(World, "V4L2_CID_HBLANK", h_blank,
                                         h_blank, 1, h_blank) :
           /\ Store(w)
           /\ Goto(t, [Traced(threads[t], w) EXCEPT !.pc = "vblank"])
  /\ Touch(t, "modify_range")
  /\ UNCHANGED <<call, mutex>>

\* mia1321_set_fmt: __v4l2_ctrl_modify_range(mia1321->vblank, ...)
SetFmtVblank(t) ==
  /\ At(t, "set_fmt", "vblank")
  /\ LET mode == supported_modes[threads[t].mode]
         vblank_def == mode.vts_def - mode.height
     IN  \E w \in v4l2_ctrl_modify_range(World, "V4L2_CID_VBLANK", vblank_def,
                                         MIA1321_VTS_MAX - mode.height, 1,
                                         vblank_def) :
           /\ Store(w)
           /\ Goto(t, [Traced(threads[t], w) EXCEPT !.pc = "fps"])
  /\ Touch(t, "modify_range")
  /\ UNCHANGED <<call, mutex>>

\* mia1321_set_fmt: mia1321->cur_fps = mode->max_fps
SetFmtFps(t) ==
  /\ At(t, "set_fmt", "fps")
  /\ mia1321' = [mia1321 EXCEPT
                   !.cur_fps = supported_modes[threads[t].mode].max_fps]
  /\ Goto(t, [threads[t] EXCEPT !.pc = "unlock"])
  /\ UNCHANGED <<platform, bound, ctrls, try_fmt, sensor, pm, board, call,
                 mutex, access>>

\* mia1321_get_fmt: const struct mia1321_mode *mode = mia1321->cur_mode, the
\* initializer of the local variable
GetFmtRead(t) ==
  /\ At(t, "get_fmt", "read")
  /\ Touch(t, "read_cur_mode")
  /\ Goto(t, [threads[t] EXCEPT !.mode = mia1321.cur_mode, !.pc = "lock"])
  /\ UNCHANGED <<platform, bound, mia1321, ctrls, try_fmt, sensor, pm, board,
                 call, mutex>>

\* mia1321_get_fmt: fmt is filled from the try format or from mode
GetFmtFill(t) ==
  /\ At(t, "get_fmt", "fill")
  /\ \E w \in mia1321_get_fmt(
                [World EXCEPT !.mia.cur_mode = threads[t].mode],
                threads[t].args.which, threads[t].args.pad) :
       Goto(t, [threads[t] EXCEPT !.out = w.out, !.rv = w.rv,
                                  !.pc = "unlock"])
  /\ UNCHANGED <<platform, bound, mia1321, ctrls, try_fmt, sensor, pm, board,
                 call, mutex, access>>

\* RKMODULE_SET_HDR_CFG: w = cur_mode->width, h = cur_mode->height
IoctlHdrSize(t) ==
  /\ At(t, "ioctl", "size")
  /\ Touch(t, "read_cur_mode")
  /\ LET mode == supported_modes[mia1321.cur_mode]
     IN  Goto(t, [threads[t] EXCEPT !.width = mode.width,
                                    !.height = mode.height, !.pc = "loop"])
  /\ UNCHANGED <<platform, bound, mia1321, ctrls, try_fmt, sensor, pm, board,
                 call, mutex>>

\* RKMODULE_SET_HDR_CFG: the loop over supported_modes, which assigns
\* cur_mode when it finds the mode, and ret = -EINVAL when it does not
IoctlHdrLoop(t) ==
  /\ At(t, "ioctl", "loop")
  /\ LET i == HdrCfgLoop(threads[t].width, threads[t].height,
                         threads[t].args.arg, 0)
     IN  IF i = NumModes
         THEN /\ Goto(t, [threads[t] EXCEPT !.rv = -EINVAL, !.pc = "ret"])
              /\ UNCHANGED <<mia1321, access>>
         ELSE /\ mia1321' = [mia1321 EXCEPT !.cur_mode = i]
              /\ Touch(t, "write_cur_mode")
              /\ Goto(t, [threads[t] EXCEPT !.pc = "calc"])
  /\ UNCHANGED <<platform, bound, ctrls, try_fmt, sensor, pm, board, call,
                 mutex>>

\* RKMODULE_SET_HDR_CFG: w = cur_mode->hts_def - cur_mode->width and
\* h = cur_mode->vts_def - cur_mode->height
IoctlHdrCalc(t) ==
  /\ At(t, "ioctl", "calc")
  /\ Touch(t, "read_cur_mode")
  /\ LET mode == supported_modes[mia1321.cur_mode]
     IN  Goto(t, [threads[t] EXCEPT !.width = mode.hts_def - mode.width,
                                    !.height = mode.vts_def - mode.height,
                                    !.pc = "hblank"])
  /\ UNCHANGED <<platform, bound, mia1321, ctrls, try_fmt, sensor, pm, board,
                 call, mutex>>

\* RKMODULE_SET_HDR_CFG: __v4l2_ctrl_modify_range(mia1321->hblank, w, w, 1, w)
IoctlHdrHblank(t) ==
  /\ At(t, "ioctl", "hblank")
  /\ \E w \in v4l2_ctrl_modify_range(World, "V4L2_CID_HBLANK",
                                     threads[t].width, threads[t].width, 1,
                                     threads[t].width) :
       /\ Store(w)
       /\ Goto(t, [Traced(threads[t], w) EXCEPT !.pc = "vblank"])
  /\ Touch(t, "modify_range")
  /\ UNCHANGED <<call, mutex>>

\* RKMODULE_SET_HDR_CFG: __v4l2_ctrl_modify_range(mia1321->vblank, h,
\* MIA1321_VTS_MAX - cur_mode->height, 1, h)
IoctlHdrVblank(t) ==
  /\ At(t, "ioctl", "vblank")
  /\ \E w \in v4l2_ctrl_modify_range(
                World, "V4L2_CID_VBLANK", threads[t].height,
                MIA1321_VTS_MAX - supported_modes[mia1321.cur_mode].height,
                1, threads[t].height) :
       /\ Store(w)
       /\ Goto(t, [Traced(threads[t], w) EXCEPT !.pc = "ret"])
  /\ Touch(t, "modify_range")
  /\ UNCHANGED <<call, mutex>>

\* mia1321_ioctl: return ret
IoctlReturn(t) ==
  /\ At(t, "ioctl", "ret")
  /\ Leave(t)
  /\ UNCHANGED <<platform, bound, mia1321, ctrls, try_fmt, sensor, pm, board,
                 mutex, access>>

\* mia1321_s_stream between mutex_lock and unlock_and_return, on hardware
\* that does not fail; __mia1321_start_stream reads cur_mode->reg_list
SStreamBody(t) ==
  /\ At(t, "s_stream", "body")
  /\ \E w \in mia1321_s_stream(World, threads[t].args.on, FALSE) :
       /\ Reliable(w)
       /\ Store(w)
       /\ Goto(t, [Traced(threads[t], w) EXCEPT !.rv = w.rv,
                                                  !.pc = "unlock"])
       /\ IF threads[t].args.on # 0 /\ w.log # <<>>
          THEN Touch(t, "read_cur_mode")
          ELSE access' = access
  /\ UNCHANGED <<call, mutex>>

\* The format callbacks, the HDR configuration ioctl and s_stream called
\* from two threads
NextLock ==
  \/ Probe
  \/ RuntimeIdle
  \/ \E t \in Threads :
       \/ \E which \in {"V4L2_SUBDEV_FORMAT_TRY", "V4L2_SUBDEV_FORMAT_ACTIVE"} :
            Enter(t, "set_fmt", "lock",
                  [which |-> which, code |-> "MEDIA_BUS_FMT_SGRBG10_1X10",
                   width |-> 1280, height |-> 720])
       \/ \E which \in {"V4L2_SUBDEV_FORMAT_TRY", "V4L2_SUBDEV_FORMAT_ACTIVE"} :
            Enter(t, "get_fmt", "read", [which |-> which, pad |-> PAD0])
       \/ \E hdr_mode \in HdrModes :
            Enter(t, "ioctl", "size",
                  [cmd |-> "RKMODULE_SET_HDR_CFG", arg |-> hdr_mode])
       \/ \E on \in {0, 1} :
            Enter(t, "s_stream", "lock", [on |-> on, tb_ng |-> FALSE])
       \/ MutexLock(t)
       \/ MutexUnlock(t)
       \/ SetFmtFit(t)
       \/ SetFmtCurMode(t)
       \/ SetFmtHblank(t)
       \/ SetFmtVblank(t)
       \/ SetFmtFps(t)
       \/ GetFmtRead(t)
       \/ GetFmtFill(t)
       \/ IoctlHdrSize(t)
       \/ IoctlHdrLoop(t)
       \/ IoctlHdrCalc(t)
       \/ IoctlHdrHblank(t)
       \/ IoctlHdrVblank(t)
       \/ IoctlReturn(t)
       \/ SStreamBody(t)

SpecLock == InitNormal /\ [][NextLock]_vars

(***************************************************************************)
(* Reading a callback's trace.                                             *)
(***************************************************************************)
\* every operation of the trace succeeded
AllOk(log) == \A i \in DOMAIN log : log[i].ok

\* operations on the I2C bus and the delays inside register tables
IsBusOp(e) == e.op \in {"i2c_write", "i2c_read", "mdelay"}

BusOps(log) == SelectSeq(log, IsBusOp)

\* e is the 8-bit write of val to reg
IsWrite(e, reg, val) == e.op = "i2c_write" /\ e.addr = reg /\ e.val = val

\* the positions of log holding operation op with value val
Positions(log, op, val) ==
  { i \in DOMAIN log : log[i].op = op /\ log[i].val = val }

\* the sensor is in use: runtime-active with a usage count above 0, so that
\* pm_runtime_get_if_in_use lets mia1321_set_ctrl reach the registers
InUse == pm.enabled /\ pm.status = "active" /\ pm.usage_count > 0

\* the value VIDIOC_S_CTRL asks for is in the control's range and not its
\* current value
IsChange(id, val) ==
  /\ val >= ctrls[id].minimum
  /\ val <= ctrls[id].maximum
  /\ val # ctrls[id].val

(***************************************************************************)
(* C1.                                                                     *)
(***************************************************************************)
\* the modes whose enumerated format is (code, width, height)
ModesOfFormat(code, width, height) ==
  { i \in DOMAIN supported_modes :
      /\ supported_modes[i].bus_fmt = code
      /\ supported_modes[i].width = width
      /\ supported_modes[i].height = height }

\* C1: every entry of supported_modes can become the current mode.  Stated
\* for the call that asks for it: after mia1321_set_fmt (which = ACTIVE) with
\* the format of some supported mode, cur_mode is a mode of that format.
C1_EveryModeSelectable ==
  (/\ call.op = "set_fmt"
   /\ call.args.which = "V4L2_SUBDEV_FORMAT_ACTIVE"
   /\ call.ret = 0
   /\ ModesOfFormat(call.args.code, call.args.width, call.args.height) # {})
  => mia1321.cur_mode
       \in ModesOfFormat(call.args.code, call.args.width, call.args.height)

\* What the code does instead: whatever set_fmt and RKMODULE_SET_HDR_CFG are
\* called with, cur_mode stays the first entry of supported_modes.
CurModeIsFirstEntry == mia1321.cur_mode = 0

\* the 12-bit format of supported_modes[2] was asked for with which = ACTIVE
C1_AskedForMode2 ==
  /\ call.op = "set_fmt"
  /\ call.args.which = "V4L2_SUBDEV_FORMAT_ACTIVE"
  /\ call.ret = 0
  /\ ModesOfFormat(call.args.code, call.args.width, call.args.height) = {2}

(***************************************************************************)
(* C2.                                                                     *)
(***************************************************************************)
\* the first row (1-based) of mia1321_again whose again is >= g, the last row
\* when g is larger than every row
FirstRowAtLeast(g) ==
  LET hits == { i \in DOMAIN mia1321_again : mia1321_again[i].again >= g }
  IN  IF hits = {} THEN Len(mia1321_again)
      ELSE CHOOSE i \in hits : \A j \in hits : i <= j

\* the analogue gain was set while the sensor was in use and the three gain
\* writes succeeded
GainWritten ==
  /\ call.op = "s_ctrl"
  /\ call.args.id = "V4L2_CID_ANALOGUE_GAIN"
  /\ call.log # <<>>
  /\ AllOk(call.log)

\* C2: for every gain g of the control range the gain registers 0x0018 /
\* 0x0019 / 0x001b receive the triple of the first row of mia1321_again whose
\* again is >= g, and the triple of the last row when g is above every row.
C2_GainSelectsFirstRowAtLeast ==
  GainWritten =>
    LET row == mia1321_again[FirstRowAtLeast(ctrls["V4L2_CID_ANALOGUE_GAIN"].val)]
    IN  /\ sensor[MIA1321_REG_ANA_GAIN_L] = row.reg_0018
        /\ sensor[MIA1321_REG_ANA_GAIN_M] = row.reg_0019
        /\ sensor[MIA1321_REG_ANA_GAIN_H] = row.reg_001b

\* a gain between the last row of the table and MIA1321_GAIN_MAX - 1 was set
C2_GainAboveTable ==
  /\ GainWritten
  /\ ctrls["V4L2_CID_ANALOGUE_GAIN"].val > mia1321_again[Len(mia1321_again)].again
  /\ ctrls["V4L2_CID_ANALOGUE_GAIN"].val < MIA1321_GAIN_MAX - 1

(***************************************************************************)
(* C3.                                                                     *)
(***************************************************************************)
\* the step is VIDIOC_S_CTRL of control id to a new value v, made while the
\* sensor is in use, and every transfer of it succeeded
OrientStep(id, v) ==
  /\ InUse
  /\ call'.op = "s_ctrl"
  /\ call'.args.id = id
  /\ call'.args.val = v
  /\ IsChange(id, v)
  /\ AllOk(call'.log)

\* C3: mirror and flip are independent.  While the sensor is in use and both
\* registers hold 0 or 1, setting HFLIP to v leaves the mirror register at v
\* and the flip register unchanged, and setting VFLIP to v leaves the flip
\* register at v and the mirror register unchanged.
C3_MirrorFlipIndependent ==
  [][ \A v \in {0, 1} :
        (/\ sensor[MIA1321_MIRROR_REG] \in {0, 1}
         /\ sensor[MIA1321_FLIP_REG] \in {0, 1})
        => /\ OrientStep("V4L2_CID_HFLIP", v)
                => /\ sensor'[MIA1321_MIRROR_REG] = v
                   /\ sensor'[MIA1321_FLIP_REG] = sensor[MIA1321_FLIP_REG]
           /\ OrientStep("V4L2_CID_VFLIP", v)
                => /\ sensor'[MIA1321_FLIP_REG] = v
                   /\ sensor'[MIA1321_MIRROR_REG] = sensor[MIA1321_MIRROR_REG]
    ]_vars

\* The half of C3 the code keeps: VFLIP alone
VflipKeepsMirror ==
  [][ \A v \in {0, 1} :
        (/\ sensor[MIA1321_MIRROR_REG] \in {0, 1}
         /\ OrientStep("V4L2_CID_VFLIP", v))
        => /\ sensor'[MIA1321_FLIP_REG] = v
           /\ sensor'[MIA1321_MIRROR_REG] = sensor[MIA1321_MIRROR_REG]
    ]_vars

\* HFLIP was set while the sensor was in use and the transfers succeeded
C3_HflipSetInUse ==
  /\ call.op = "s_ctrl"
  /\ call.args.id = "V4L2_CID_HFLIP"
  /\ call.log # <<>>
  /\ AllOk(call.log)

(***************************************************************************)
(* C4.                                                                     *)
(***************************************************************************)
\* the 24-bit value the three exposure registers hold
ExposureRegs24 ==
  sensor[MIA1321_REG_EXPOSURE_H] * 65536
    + sensor[MIA1321_REG_EXPOSURE_M] * 256
    + sensor[MIA1321_REG_EXPOSURE_L]

\* C4: when the sensor is in use and the current mode is NO_HDR, setting
\* V4L2_CID_EXPOSURE to e issues exactly three 8-bit writes: bits 23..16 of e
\* to 0x00cf, bits 15..8 to 0x00ce, bits 7..0 to 0x00cd; when the three
\* transfers succeed the registers read together as e.
C4_ExposureThreeBytes ==
  [][ (/\ InUse
       /\ call'.op = "s_ctrl"
       /\ call'.args.id = "V4L2_CID_EXPOSURE"
       /\ IsChange("V4L2_CID_EXPOSURE", call'.args.val)
       /\ supported_modes[mia1321.cur_mode].hdr_mode = "NO_HDR")
      => LET e == call'.args.val
             W == call'.log
         IN  /\ Len(W) = 3
             /\ IsWrite(W[1], MIA1321_REG_EXPOSURE_H, (e \div 65536) % 256)
             /\ IsWrite(W[2], MIA1321_REG_EXPOSURE_M, (e \div 256) % 256)
             /\ IsWrite(W[3], MIA1321_REG_EXPOSURE_L, e % 256)
             /\ AllOk(W) => ExposureRegs24' = e
    ]_vars

\* an exposure of more than one byte was set while the sensor was in use
C4_ExposureWritten ==
  /\ call.op = "s_ctrl"
  /\ call.args.id = "V4L2_CID_EXPOSURE"
  /\ Len(call.log) = 3
  /\ AllOk(call.log)
  /\ call.args.val > 255
  /\ ExposureRegs24 = call.args.val

(***************************************************************************)
(* C5.                                                                     *)
(***************************************************************************)
\* the positions of the trace that read MIA1321_REG_CHIP_ID
ChipIdReads(log) ==
  { i \in DOMAIN log :
      log[i].op = "i2c_read" /\ log[i].addr = MIA1321_REG_CHIP_ID }

\* operation op is in the trace after position i
Later(log, i, op) == \E j \in DOMAIN log : j > i /\ log[j].op = op

\* C5: with thunderboot disabled, mia1321_probe registers the sub-device only
\* if the 16-bit value read from register 0x0011 is CHIP_ID; for any other
\* value, or when the read fails, probe returns -ENODEV, registers nothing,
\* and has powered the sensor off (xvclk disabled, reset and pwdn at 0,
\* regulators disabled) and freed the control handler.
C5_ProbeDetectsSensor ==
  (call.op = "probe" /\ ~platform.thunderboot) =>
    /\ (bound = "bound" \/ Positions(call.log, "v4l2_async_register_subdev_sensor_common", 0) # {})
         => \E i \in ChipIdReads(call.log) :
              call.log[i].ok /\ call.log[i].val = CHIP_ID
    /\ \A i \in ChipIdReads(call.log) :
         (~call.log[i].ok \/ call.log[i].val # CHIP_ID)
         => /\ call.ret = -ENODEV
            /\ bound = "failed"
            /\ Positions(call.log, "v4l2_async_register_subdev_sensor_common", 0) = {}
            /\ board.xvclk = 0
            /\ board.supplies = 0
            /\ board.reset = 0
            /\ board.pwdn = 0
            /\ ctrls = <<>>
            /\ Later(call.log, i, "clk_disable_unprepare")
            /\ Later(call.log, i, "regulator_bulk_disable")
            /\ Later(call.log, i, "v4l2_ctrl_handler_free")
            /\ platform.has_reset
                 => \E j \in Positions(call.log, "reset_gpio", 0) : j > i
            /\ platform.has_pwdn
                 => \E j \in Positions(call.log, "pwdn_gpio", 0) : j > i

\* probe read an id other than CHIP_ID from a sensor that was powered on
C5_WrongIdRead ==
  /\ call.op = "probe"
  /\ ~platform.thunderboot
  /\ platform.has_reset
  /\ platform.has_pwdn
  /\ \E i \in ChipIdReads(call.log) :
       call.log[i].ok /\ call.log[i].val # CHIP_ID
  /\ call.ret = -ENODEV

(***************************************************************************)
(* C6.                                                                     *)
(***************************************************************************)
\* C6: power-up order with thunderboot disabled.  xvclk is enabled before
\* the regulators; reset is at 0 while the regulators are enabled; reset is
\* driven to 1 only after regulator_bulk_enable succeeded; pwdn is driven to
\* 1 only after reset was driven to 1; when enabling the regulators fails,
\* xvclk is disabled again, reset is never driven to 1 and the error is
\* returned.
C6_PowerOnOrder ==
  ~platform.thunderboot =>
    LET L == call.log
        RegsOn == { i \in DOMAIN L : L[i].op = "regulator_bulk_enable" }
    IN  /\ \A j \in RegsOn :
             /\ \E i \in 1..(j - 1) : L[i].op = "clk_prepare_enable" /\ L[i].ok
             /\ platform.has_reset
                  => /\ L[j - 1].op = "reset_gpio"
                     /\ L[j - 1].val = 0
             /\ ~L[j].ok
                  => /\ j < Len(L)
                     /\ L[j + 1].op = "clk_disable_unprepare"
                     /\ Positions(L, "reset_gpio", 1) = {}
                     /\ Positions(L, "pwdn_gpio", 1) = {}
                     /\ board.xvclk = 0
                     /\ call.ret = -EINVAL
        /\ \A j \in Positions(L, "reset_gpio", 1) :
             \E i \in RegsOn : i < j /\ L[i].ok
        /\ \A j \in Positions(L, "pwdn_gpio", 1) :
             /\ \E i \in RegsOn : i < j /\ L[i].ok
             /\ platform.has_reset
                  => \E i \in Positions(L, "reset_gpio", 1) : i < j

\* the sensor was powered up on a board with both GPIOs
C6_PoweredUp ==
  /\ ~platform.thunderboot
  /\ platform.has_reset
  /\ platform.has_pwdn
  /\ Positions(call.log, "reset_gpio", 1) # {}
  /\ Positions(call.log, "pwdn_gpio", 1) # {}
  /\ board.reset = 1
  /\ board.pwdn = 1

(***************************************************************************)
(* C7.                                                                     *)
(***************************************************************************)
\* the number of entries of the current mode's table before REG_NULL
CurTableLen == TableEnd(supported_modes[mia1321.cur_mode].reg_list) - 1

\* C7: on s_stream(1) with thunderboot disabled the entries of
\* cur_mode->reg_list are written in table order up to REG_NULL before
\* MIA1321_MODE_STREAMING is written to 0x0126; when a table write fails, no
\* later entry and no streaming command is written, s_stream returns the
\* error and the streaming flag stays false.
C7_TableThenStreaming ==
  (call.op = "s_stream" /\ call.args.on = 1 /\ ~platform.thunderboot) =>
    LET B == BusOps(call.log)
        T == supported_modes[mia1321.cur_mode].reg_list
        n == CurTableLen
        m == IF Len(B) < n THEN Len(B) ELSE n
    IN  /\ \A i \in 1..m : IsWrite(B[i], T[i][1], T[i][2])
        /\ \A i \in 1..m :
             ~B[i].ok => /\ Len(B) = i
                         /\ call.ret = -EIO
                         /\ ~mia1321.streaming
        /\ (B # <<>> /\ \A i \in 1..m : B[i].ok) => Len(B) > n
        /\ \A j \in DOMAIN B :
             (B[j].op = "i2c_write" /\ B[j].addr = MIA1321_REG_CTRL_MODE)
             => j > n /\ B[j].val = MIA1321_MODE_STREAMING

\* s_stream(1) wrote the whole table and then the streaming command
C7_StreamStarted ==
  /\ call.op = "s_stream"
  /\ call.args.on = 1
  /\ ~platform.thunderboot
  /\ call.ret = 0
  /\ mia1321.streaming
  /\ Len(BusOps(call.log)) > CurTableLen
  /\ \E j \in DOMAIN call.log :
       IsWrite(call.log[j], MIA1321_REG_CTRL_MODE, MIA1321_MODE_STREAMING)

(***************************************************************************)
(* C8.                                                                     *)
(***************************************************************************)
\* s_stream(1) started the stream and every transfer of it succeeded
StreamStartedClean ==
  /\ call.op = "s_stream"
  /\ call.args.on = 1
  /\ ~platform.thunderboot
  /\ call.ret = 0
  /\ call.log # <<>>
  /\ AllOk(call.log)

\* C8: after a successful s_stream(1) with thunderboot disabled the sensor
\* registers reflect the controls: the exposure registers hold the exposure
\* value, the gain registers the triple for the gain value, the mirror and
\* flip registers the HFLIP and VFLIP values.
C8_RegistersReflectControls ==
  StreamStartedClean =>
    LET row == mia1321_again[FirstRowAtLeast(ctrls["V4L2_CID_ANALOGUE_GAIN"].val)]
    IN  /\ ExposureRegs24 = ctrls["V4L2_CID_EXPOSURE"].val
        /\ sensor[MIA1321_REG_ANA_GAIN_L] = row.reg_0018
        /\ sensor[MIA1321_REG_ANA_GAIN_M] = row.reg_0019
        /\ sensor[MIA1321_REG_ANA_GAIN_H] = row.reg_001b
        /\ sensor[MIA1321_MIRROR_REG] = ctrls["V4L2_CID_HFLIP"].val
        /\ sensor[MIA1321_FLIP_REG] = ctrls["V4L2_CID_VFLIP"].val

\* The part of C8 the code keeps: exposure and gain
ExposureGainReflectControls ==
  StreamStartedClean =>
    LET row == mia1321_again[FirstRowAtLeast(ctrls["V4L2_CID_ANALOGUE_GAIN"].val)]
    IN  /\ ExposureRegs24 = ctrls["V4L2_CID_EXPOSURE"].val
        /\ sensor[MIA1321_REG_ANA_GAIN_L] = row.reg_0018
        /\ sensor[MIA1321_REG_ANA_GAIN_M] = row.reg_0019
        /\ sensor[MIA1321_REG_ANA_GAIN_H] = row.reg_001b

\* the stream was started with HFLIP and VFLIP both off
C8_StartedUnflipped ==
  /\ StreamStartedClean
  /\ ctrls["V4L2_CID_HFLIP"].val = 0
  /\ ctrls["V4L2_CID_VFLIP"].val = 0

(***************************************************************************)
(* C9.                                                                     *)
(***************************************************************************)
\* C9: every change of V4L2_CID_TEST_PATTERN made while the sensor is in use
\* issues at least one I2C register write.
C9_TestPatternWritesRegister ==
  [][ (/\ InUse
       /\ call'.op = "s_ctrl"
       /\ call'.args.id = "V4L2_CID_TEST_PATTERN"
       /\ IsChange("V4L2_CID_TEST_PATTERN", call'.args.val))
      => \E i \in DOMAIN call'.log : call'.log[i].op = "i2c_write"
    ]_vars

\* the test pattern was changed while the sensor was in use
C9_TestPatternChanged ==
  /\ InUse
  /\ call.op = "s_ctrl"
  /\ call.args.id = "V4L2_CID_TEST_PATTERN"
  /\ call.args.val = 1
  /\ call.ret = 0
  /\ ctrls["V4L2_CID_TEST_PATTERN"].val = 1

(***************************************************************************)
(* C10.                                                                    *)
(***************************************************************************)
\* the registers of the exposure time
ExposureRegs ==
  { MIA1321_REG_EXPOSURE_H, MIA1321_REG_EXPOSURE_M, MIA1321_REG_EXPOSURE_L }

\* C10: setting V4L2_CID_VBLANK to v while the sensor is in use issues
\* register writes that program the frame length cur_mode->height + v, and
\* afterwards cur_vts = cur_mode->height + v.
C10_VblankProgramsFrameLength ==
  [][ (/\ InUse
       /\ call'.op = "s_ctrl"
       /\ call'.args.id = "V4L2_CID_VBLANK"
       /\ IsChange("V4L2_CID_VBLANK", call'.args.val)
       /\ call'.ret = 0)
      => /\ \E i \in DOMAIN call'.log :
              /\ call'.log[i].op = "i2c_write"
              /\ call'.log[i].addr \notin ExposureRegs
         /\ mia1321'.cur_vts
              = supported_modes[mia1321.cur_mode].height + call'.args.val
    ]_vars

\* What the code does instead: cur_vts is the mode's default frame length
\* whatever V4L2_CID_VBLANK is set to
CurVtsIsDefault ==
  bound = "bound" =>
    mia1321.cur_vts \in {0, supported_modes[mia1321.cur_mode].vts_def}

\* VBLANK was set to a value other than the default while the sensor was in
\* use
C10_VblankChanged ==
  /\ InUse
  /\ call.op = "s_ctrl"
  /\ call.args.id = "V4L2_CID_VBLANK"
  /\ call.ret = 0
  /\ ctrls["V4L2_CID_VBLANK"].val = call.args.val
  /\ call.args.val # supported_modes[mia1321.cur_mode].vts_def
                       - supported_modes[mia1321.cur_mode].height

(***************************************************************************)
(* C11.                                                                    *)
(***************************************************************************)
\* the step is the call of RKMODULE_SET_HDR_CFG with hdr_mode
IsSetHdrCfg(hdr_mode) ==
  /\ call'.op = "ioctl"
  /\ call'.args.cmd = "RKMODULE_SET_HDR_CFG"
  /\ call'.args.arg = hdr_mode

\* C11: HDR is never in effect.  After every step cur_mode->hdr_mode is
\* NO_HDR; RKMODULE_GET_HDR_CFG reports NO_HDR; g_mbus_config sets neither
\* V4L2_MBUS_CSI2_CHANNEL_1 nor CHANNEL_2; get_fmt of the active format
\* reports the virtual channel vc[PAD0]; RKMODULE_SET_HDR_CFG with an
\* hdr_mode other than NO_HDR returns -EINVAL and leaves cur_mode and the
\* hblank / vblank controls as they were.
C11_HdrNeverInEffect ==
  [][ /\ supported_modes[mia1321'.cur_mode].hdr_mode = "NO_HDR"
      /\ (call'.op = "ioctl" /\ call'.args.cmd = "RKMODULE_GET_HDR_CFG")
           => call'.ret = 0 /\ call'.out.hdr_mode = "NO_HDR"
      /\ call'.op = "g_mbus_config"
           => /\ call'.ret = 0
              /\ "V4L2_MBUS_CSI2_CHANNEL_1" \notin call'.out.flags
              /\ "V4L2_MBUS_CSI2_CHANNEL_2" \notin call'.out.flags
      /\ (call'.op = "get_fmt"
            /\ call'.args.which = "V4L2_SUBDEV_FORMAT_ACTIVE")
           => call'.out.reserved0
                = supported_modes[mia1321'.cur_mode].vc[PAD0 + 1]
      /\ \A hdr_mode \in HdrModes \ {"NO_HDR"} :
           IsSetHdrCfg(hdr_mode)
           => /\ call'.ret = -EINVAL
              /\ mia1321'.cur_mode = mia1321.cur_mode
              /\ ctrls'["V4L2_CID_HBLANK"] = ctrls["V4L2_CID_HBLANK"]
              /\ ctrls'["V4L2_CID_VBLANK"] = ctrls["V4L2_CID_VBLANK"]
    ]_vars

\* RKMODULE_SET_HDR_CFG asked for HDR_X2 and was refused
C11_HdrRefused ==
  /\ call.op = "ioctl"
  /\ call.args.cmd = "RKMODULE_SET_HDR_CFG"
  /\ call.args.arg = "HDR_X2"
  /\ call.ret = -EINVAL
  /\ supported_modes[mia1321.cur_mode].hdr_mode = "NO_HDR"

(***************************************************************************)
(* C12.                                                                    *)
(***************************************************************************)
\* the controls whose s_ctrl case reads or writes sensor registers
RegisterCtrls ==
  { "V4L2_CID_EXPOSURE", "V4L2_CID_ANALOGUE_GAIN", "V4L2_CID_HFLIP",
    "V4L2_CID_VFLIP" }

\* a register access of the last callback failed
SomeAccessFailed == \E i \in DOMAIN call.log : ~call.log[i].ok

\* C12: mia1321_set_ctrl returns a non-zero error whenever a register access
\* it issued for V4L2_CID_EXPOSURE, V4L2_CID_ANALOGUE_GAIN, V4L2_CID_HFLIP or
\* V4L2_CID_VFLIP failed.
C12_SetCtrlReportsFailure ==
  (/\ call.op = "s_ctrl"
   /\ call.args.id \in RegisterCtrls
   /\ SomeAccessFailed)
  => call.ret # 0

\* What the code keeps: a failure of the last or of the middle exposure
\* write, of any gain write, and of the read of an orientation register is
\* reported.
ReportedFailures ==
  (/\ call.op = "s_ctrl"
   /\ call.args.id \in RegisterCtrls
   /\ \E i \in DOMAIN call.log :
        /\ ~call.log[i].ok
        /\ \/ call.log[i].op = "i2c_read"
           \/ call.log[i].addr \in { MIA1321_REG_EXPOSURE_M,
                                     MIA1321_REG_EXPOSURE_L,
                                     MIA1321_REG_ANA_GAIN_H,
                                     MIA1321_REG_ANA_GAIN_M,
                                     MIA1321_REG_ANA_GAIN_L })
  => call.ret = -EIO

\* the write of the high exposure byte failed and s_ctrl returned 0
C12_HighByteWriteLost ==
  /\ call.op = "s_ctrl"
  /\ call.args.id = "V4L2_CID_EXPOSURE"
  /\ Len(call.log) = 3
  /\ ~call.log[1].ok
  /\ call.log[1].addr = MIA1321_REG_EXPOSURE_H

(***************************************************************************)
(* C13.                                                                    *)
(***************************************************************************)
\* the step is mia1321_s_stream(sd, on) with !!on = o
IsSStream(o) == call'.op = "s_stream" /\ (call'.args.on # 0) = o

\* enabling xvclk or the regulators failed in the last callback, so that the
\* runtime resume and with it pm_runtime_get_sync failed
ResumeFailed(log) ==
  \E i \in DOMAIN log :
    /\ log[i].op \in {"clk_prepare_enable", "regulator_bulk_enable"}
    /\ ~log[i].ok

\* a write of the mode table or the streaming command failed
TableOrCommandFailed(log) ==
  LET B == BusOps(log)
  IN  \E i \in DOMAIN B :
        /\ ~B[i].ok
        /\ \/ i <= CurTableLen
           \/ B[i].addr = MIA1321_REG_CTRL_MODE

\* C13: mia1321_s_stream is idempotent and all-or-nothing.  A call whose
\* normalized on equals the streaming flag returns 0 and makes no runtime-PM
\* call and no register access.  A start that fails (the runtime resume, the
\* mode table or the streaming command failed, or any other non-zero return)
\* returns a negative error, leaves streaming false and the runtime-PM usage
\* count as it was.  streaming becomes true only with return value 0, one
\* reference taken and the streaming command written.
C13_SStreamAllOrNothing ==
  [][ /\ \A o \in BOOLEAN :
           (IsSStream(o) /\ mia1321.streaming = o)
           => /\ call'.ret = 0
              /\ call'.log = <<>>
              /\ pm' = pm
              /\ sensor' = sensor
              /\ board' = board
              /\ mia1321' = mia1321
      /\ (IsSStream(TRUE) /\ ~mia1321.streaming)
           => /\ (ResumeFailed(call'.log) \/ TableOrCommandFailed(call'.log))
                   => call'.ret < 0
              /\ call'.ret # 0
                   => /\ call'.ret < 0
                      /\ ~mia1321'.streaming
                      /\ pm'.usage_count = pm.usage_count
              /\ call'.ret = 0
                   => /\ mia1321'.streaming
                      /\ pm'.usage_count = pm.usage_count + 1
                      /\ \E i \in DOMAIN call'.log :
                           /\ IsWrite(call'.log[i], MIA1321_REG_CTRL_MODE,
                                      MIA1321_MODE_STREAMING)
                           /\ call'.log[i].ok
    ]_vars

\* a start failed at a write of the mode table after the resume had succeeded
C13_StartFailedAtTable ==
  /\ call.op = "s_stream"
  /\ call.args.on = 1
  /\ call.ret = -EIO
  /\ ~ResumeFailed(call.log)
  /\ TableOrCommandFailed(call.log)
  /\ ~mia1321.streaming
  /\ pm.usage_count = 0

\* s_stream(1) was called while streaming
C13_StartWhileStreaming ==
  /\ call.op = "s_stream"
  /\ call.args.on = 1
  /\ call.ret = 0
  /\ call.log = <<>>
  /\ mia1321.streaming

(***************************************************************************)
(* C14.                                                                    *)
(***************************************************************************)
\* the step is mia1321_s_power(sd, on) with !!on = o
IsSPower(o) == call'.op = "s_power" /\ (call'.args.on # 0) = o

\* C14: mia1321_s_power does no work when the power state is not modified:
\* it returns 0 and makes no runtime-PM call and no register access.
\* Otherwise s_power(1) takes exactly one runtime-PM reference and sets
\* power_on only when it succeeds (return value >= 0); when it fails the
\* usage count is as before and power_on stays false.  s_power(0) releases
\* exactly one reference, sets power_on = false and returns 0.
C14_SPowerOnlyOnChange ==
  [][ /\ \A o \in BOOLEAN :
           (IsSPower(o) /\ mia1321.power_on = o)
           => /\ call'.ret = 0
              /\ call'.log = <<>>
              /\ pm' = pm
              /\ sensor' = sensor
              /\ board' = board
              /\ mia1321' = mia1321
      /\ (IsSPower(TRUE) /\ ~mia1321.power_on)
           => /\ (\E i \in DOMAIN call'.log : ~call'.log[i].ok)
                   => call'.ret < 0
              /\ call'.ret >= 0
                   => /\ mia1321'.power_on
                      /\ pm'.usage_count = pm.usage_count + 1
                      /\ pm'.status = "active"
              /\ call'.ret < 0
                   => /\ ~mia1321'.power_on
                      /\ pm'.usage_count = pm.usage_count
      /\ (IsSPower(FALSE) /\ mia1321.power_on)
           => /\ call'.ret = 0
              /\ ~mia1321'.power_on
              /\ pm'.usage_count = pm.usage_count - 1
              /\ call'.log = <<>>
    ]_vars

\* s_power(1) failed because the runtime resume failed
C14_PowerOnFailedAtResume ==
  /\ call.op = "s_power"
  /\ call.args.on = 1
  /\ call.ret < 0
  /\ ResumeFailed(call.log)
  /\ ~mia1321.power_on
  /\ pm.usage_count = 0

\* s_power(1) was called while power_on was set
C14_PowerOnWhileOn ==
  /\ call.op = "s_power"
  /\ call.args.on = 1
  /\ call.ret = 0
  /\ call.log = <<>>
  /\ mia1321.power_on

(***************************************************************************)
(* C15.                                                                    *)
(***************************************************************************)
\* C15: the enumerations agree.  mia1321_enum_frame_sizes with index i < 3
\* succeeds exactly when fse->code is supported_modes[i].bus_fmt, the code
\* mia1321_enum_frame_interval reports for i, and then reports that mode's
\* width and height; for every index >= 3 both return -EINVAL.
C15_EnumerationsAgree ==
  /\ call.op = "enum_frame_sizes"
       => IF call.args.index < NumModes
          THEN /\ call.ret = 0
                    <=> call.args.code
                          = supported_modes[call.args.index].bus_fmt
               /\ call.ret = 0
                    => /\ call.out.min_width
                            = supported_modes[call.args.index].width
                       /\ call.out.max_width
                            = supported_modes[call.args.index].width
                       /\ call.out.min_height
                            = supported_modes[call.args.index].height
                       /\ call.out.max_height
                            = supported_modes[call.args.index].height
               /\ call.ret # 0 => call.ret = -EINVAL
          ELSE call.ret = -EINVAL
  /\ call.op = "enum_frame_interval"
       => IF call.args.index < NumModes
          THEN /\ call.ret = 0
               /\ call.out.code = supported_modes[call.args.index].bus_fmt
               /\ call.out.width = supported_modes[call.args.index].width
               /\ call.out.height = supported_modes[call.args.index].height
          ELSE call.ret = -EINVAL

\* What the code does instead: the code is compared with the bus format of
\* the first mode whatever the index
EnumFrameSizesComparesFirstMode ==
  (call.op = "enum_frame_sizes" /\ call.args.index < NumModes)
  => (call.ret = 0 <=> call.args.code = supported_modes[0].bus_fmt)

\* enum_frame_sizes was asked for the mode whose bus format differs from the
\* first mode's, with that mode's own code
C15_AskedWithOwnCode ==
  /\ call.op = "enum_frame_sizes"
  /\ call.args.index < NumModes
  /\ call.args.code = supported_modes[call.args.index].bus_fmt
  /\ call.args.code # supported_modes[0].bus_fmt

(***************************************************************************)
(* C16.                                                                    *)
(***************************************************************************)
\* |a - b|
AbsDiff(a, b) == IF a < b THEN b - a ELSE a - b

\* the supported mode nearest to width x height: the smallest
\* |width difference| + |height difference|, the lowest index on ties
NearestMode(width, height) ==
  LET d(i) == AbsDiff(supported_modes[i].width, width)
                + AbsDiff(supported_modes[i].height, height)
      best == { i \in DOMAIN supported_modes :
                  \A j \in DOMAIN supported_modes : d(i) <= d(j) }
  IN  CHOOSE i \in best : \A j \in best : i <= j

\* C16: mia1321_set_fmt answers with the format of the supported mode nearest
\* to the requested size, field V4L2_FIELD_NONE.  With which = TRY cur_mode,
\* cur_fps and the controls are unchanged.  With which = ACTIVE cur_mode is
\* that mode, cur_fps its max_fps, hblank is fixed at hts_def - width and
\* vblank has the range [vts_def - height, 0xffff - height].
C16_SetFmtNearestMode ==
  [][ call'.op = "set_fmt"
      => LET m == NearestMode(call'.args.width, call'.args.height)
             mode == supported_modes[m]
         IN  /\ call'.ret = 0
             /\ call'.out = [code |-> mode.bus_fmt, width |-> mode.width,
                             height |-> mode.height,
                             field |-> "V4L2_FIELD_NONE"]
             /\ call'.args.which = "V4L2_SUBDEV_FORMAT_TRY"
                  => /\ mia1321' = mia1321
                     /\ ctrls' = ctrls
                     /\ try_fmt' = call'.out
             /\ call'.args.which = "V4L2_SUBDEV_FORMAT_ACTIVE"
                  => /\ mia1321'.cur_mode = m
                     /\ mia1321'.cur_fps = mode.max_fps
                     /\ ctrls'["V4L2_CID_HBLANK"].minimum
                          = mode.hts_def - mode.width
                     /\ ctrls'["V4L2_CID_HBLANK"].maximum
                          = mode.hts_def - mode.width
                     /\ ctrls'["V4L2_CID_HBLANK"].val
                          = mode.hts_def - mode.width
                     /\ ctrls'["V4L2_CID_VBLANK"].minimum
                          = mode.vts_def - mode.height
                     /\ ctrls'["V4L2_CID_VBLANK"].maximum
                          = 65535 - mode.height
                     /\ try_fmt' = try_fmt
    ]_vars

\* set_fmt (ACTIVE) was asked for a size no mode has and answered 1280x1080
C16_OtherSizeAsked ==
  /\ call.op = "set_fmt"
  /\ call.args.which = "V4L2_SUBDEV_FORMAT_ACTIVE"
  /\ call.args.width = 640
  /\ call.args.height = 720
  /\ call.out.width = 1280
  /\ call.out.height = 1080

(***************************************************************************)
(* C17.                                                                    *)
(***************************************************************************)
\* the range of the exposure control follows the vertical blanking: the
\* maximum is height + vblank - 1; minimum, step and default are those
\* mia1321_initialize_controls gave it
ExposureRangeFollows(c, mode) ==
  /\ c["V4L2_CID_EXPOSURE"].maximum
       = mode.height + c["V4L2_CID_VBLANK"].val - 1
  /\ c["V4L2_CID_EXPOSURE"].minimum = MIA1321_EXPOSURE_MIN
  /\ c["V4L2_CID_EXPOSURE"].step = MIA1321_EXPOSURE_STEP
  /\ c["V4L2_CID_EXPOSURE"].default_value = mode.exp_def

\* C17: setting V4L2_CID_VBLANK to v makes the maximum of the exposure
\* control cur_mode->height + v - 1 and keeps its minimum, step and default,
\* whether or not the sensor is in use; so after any sequence of VBLANK
\* changes the exposure maximum is height + (current vblank) - 1.
C17_ExposureMaxFollowsVblank ==
  [][ /\ bound' = "bound"
           => ExposureRangeFollows(ctrls', supported_modes[mia1321'.cur_mode])
      /\ (/\ call'.op = "s_ctrl"
          /\ call'.args.id = "V4L2_CID_VBLANK"
          /\ IsChange("V4L2_CID_VBLANK", call'.args.val))
           => /\ call'.ret = 0
              /\ ctrls'["V4L2_CID_VBLANK"].val = call'.args.val
              /\ ctrls'["V4L2_CID_EXPOSURE"].maximum
                   = supported_modes[mia1321.cur_mode].height
                       + call'.args.val - 1
              /\ ctrls'["V4L2_CID_EXPOSURE"].minimum
                   = ctrls["V4L2_CID_EXPOSURE"].minimum
              /\ ctrls'["V4L2_CID_EXPOSURE"].step
                   = ctrls["V4L2_CID_EXPOSURE"].step
              /\ ctrls'["V4L2_CID_EXPOSURE"].default_value
                   = ctrls["V4L2_CID_EXPOSURE"].default_value
    ]_vars

\* VBLANK was raised while the sensor was not in use, and the exposure
\* maximum followed
C17_VblankSetWhileIdle ==
  /\ ~InUse
  /\ bound = "bound"
  /\ call.op = "s_ctrl"
  /\ call.args.id = "V4L2_CID_VBLANK"
  /\ ctrls["V4L2_CID_VBLANK"].val = call.args.val
  /\ call.args.val > supported_modes[mia1321.cur_mode].vts_def
                       - supported_modes[mia1321.cur_mode].height
  /\ ctrls["V4L2_CID_EXPOSURE"].maximum
       = supported_modes[mia1321.cur_mode].height + call.args.val - 1

(***************************************************************************)
(* C18.                                                                    *)
(***************************************************************************)
\* the references s_power and s_stream hold
HeldReferences ==
  (IF mia1321.power_on THEN 1 ELSE 0) + (IF mia1321.streaming THEN 1 ELSE 0)

\* C18: runtime-PM references are balanced over any sequence of probe,
\* s_power, s_stream and set_ctrl calls, with thunderboot enabled or disabled:
\* the usage count is never negative, and it is the references s_power and
\* s_stream hold, plus, with thunderboot only, at most the one reference probe
\* took.
C18_PmReferencesBalanced ==
  bound = "bound" =>
    /\ pm.usage_count >= 0
    /\ pm.usage_count \in { HeldReferences, HeldReferences + 1 }
    /\ ~platform.thunderboot => pm.usage_count = HeldReferences

\* What the code keeps: without thunderboot the count is the references held
BalancedWithoutThunderboot ==
  (bound = "bound" /\ ~platform.thunderboot)
  => pm.usage_count = HeldReferences

\* with thunderboot, a stream was stopped for the second time while s_power
\* held its reference
C18_SecondStreamOff ==
  /\ platform.thunderboot
  /\ call.op = "s_stream"
  /\ call.args.on = 0
  /\ call.log # <<>>
  /\ mia1321.power_on
  /\ mia1321.is_thunderboot
  /\ pm.usage_count < HeldReferences

(***************************************************************************)
(* C19.                                                                    *)
(***************************************************************************)
\* C19: regulator and clock enables are balanced, with thunderboot enabled
\* or disabled: regulator_bulk_disable and clk_disable_unprepare are called
\* only for an enable of this driver that succeeded and has not been undone,
\* so neither enable count of the driver goes below 0.
C19_EnablesBalanced ==
  /\ board.supplies >= 0
  /\ board.xvclk >= 0

\* What the code keeps: the clock
ClockBalanced == board.xvclk >= 0

\* with thunderboot, the runtime suspend after the first stream-off disabled
\* the regulators
C19_SuspendAfterFirstStreamOff ==
  /\ platform.thunderboot
  /\ call.op = "runtime_idle"
  /\ Positions(call.log, "regulator_bulk_disable", 0) # {}

(***************************************************************************)
(* C20.                                                                    *)
(***************************************************************************)
\* s_stream(0) has just stopped the stream and s_power holds no reference:
\* nobody uses the sensor
StreamStoppedUnused ==
  /\ bound = "bound"
  /\ call.op = "s_stream"
  /\ call.args.on = 0
  /\ call.log # <<>>
  /\ ~mia1321.streaming
  /\ ~mia1321.power_on

\* __mia1321_power_off has run to completion: the device is suspended, xvclk
\* is disabled, reset and pwdn are at 0 and the driver has no regulator
\* enabled
PoweredOff ==
  /\ pm.status = "suspended"
  /\ board.xvclk = 0
  /\ board.reset = 0
  /\ board.pwdn = 0
  /\ board.supplies <= 0

\* C20: the sensor is eventually powered down when nobody uses it.  Once the
\* stream was stopped and power_on is false, and idle requests are run,
\* __mia1321_power_off eventually runs to completion, unless the sensor is
\* used again or the driver is removed first.
C20_EventuallyPoweredOff ==
  StreamStoppedUnused
    ~> (\/ PoweredOff
        \/ mia1321.streaming
        \/ mia1321.power_on
        \/ bound # "bound")

\* the stream that was stopped had been started with RKISP_TB_NG
C20_StoppedAfterTbNg ==
  /\ StreamStoppedUnused
  /\ platform.thunderboot
  /\ ~mia1321.is_thunderboot
  /\ pm.usage_count = 1
  /\ ~pm.idle_req

(***************************************************************************)
(* C21.                                                                    *)
(***************************************************************************)
\* the callbacks that reach the sensor's registers after probe
RegisterCallbacks == { "s_stream", "s_power", "s_ctrl", "ioctl" }

\* C21: no sensor register access is issued while the sensor is powered
\* down.  Every I2C read or write issued by s_stream, s_power, set_ctrl or
\* mia1321_ioctl happens while the driver holds a runtime-PM reference and
\* the sensor is powered.
C21_NoAccessWhilePoweredDown ==
  call.op \in RegisterCallbacks => ~call.cold

\* What the code keeps: the accesses of s_stream, s_power and set_ctrl
AccessesBehindReference ==
  call.op \in RegisterCallbacks \ { "ioctl" } => ~call.cold

\* RKMODULE_SET_QUICK_STREAM wrote MIA1321_REG_CTRL_MODE while the device
\* was runtime-suspended and nobody held a reference
C21_QuickStreamWhileSuspended ==
  /\ call.op = "ioctl"
  /\ call.args.cmd = "RKMODULE_SET_QUICK_STREAM"
  /\ call.cold
  /\ pm.status = "suspended"
  /\ pm.usage_count = 0
  /\ board.xvclk = 0

(***************************************************************************)
(* C22.                                                                    *)
(***************************************************************************)
\* the positions of log where the standby command was sent
StandbyWrites(log) ==
  { i \in DOMAIN log :
      IsWrite(log[i], MIA1321_REG_CTRL_MODE, MIA1321_MODE_SW_STANDBY) }

\* C22: the streaming flag agrees with the sensor.  A call that leaves
\* streaming false leaves MIA1321_MODE_SW_STANDBY as the last value
\* successfully written to MIA1321_REG_CTRL_MODE, unless streaming was false
\* before and the call did not write the register (nothing was written to it
\* since probe); and an s_stream(0) that sent the standby command returns 0
\* only if that write succeeded.
C22_StreamingFlagAgrees ==
  [][ bound' = "bound" =>
        /\ ~mia1321'.streaming
             => \/ sensor'[MIA1321_REG_CTRL_MODE] = MIA1321_MODE_SW_STANDBY
                \/ /\ ~mia1321.streaming
                   /\ sensor'[MIA1321_REG_CTRL_MODE]
                        = sensor[MIA1321_REG_CTRL_MODE]
        /\ (call'.op = "s_stream" /\ call'.args.on = 0 /\ call'.ret = 0)
             => \A i \in StandbyWrites(call'.log) : call'.log[i].ok ]_vars

\* What the code keeps: after an s_stream call that changed the state and
\* whose operations all succeeded, the flag and the register agree
FlagAgreesAfterCleanSStream ==
  (bound = "bound" /\ call.op = "s_stream" /\ call.log # <<>>
     /\ AllOk(call.log))
  => (mia1321.streaming
        <=> sensor[MIA1321_REG_CTRL_MODE] = MIA1321_MODE_STREAMING)

\* s_stream(0) returned 0 and cleared streaming although its standby write
\* failed: the sensor still holds the streaming command
C22_StandbyWriteLost ==
  /\ call.op = "s_stream"
  /\ call.args.on = 0
  /\ call.ret = 0
  /\ ~mia1321.streaming
  /\ \E i \in StandbyWrites(call.log) : ~call.log[i].ok
  /\ sensor[MIA1321_REG_CTRL_MODE] = MIA1321_MODE_STREAMING

\* RKMODULE_SET_QUICK_STREAM started the sensor while streaming is false
C22_QuickStreamOnWhileStopped ==
  /\ call.op = "ioctl"
  /\ call.args.cmd = "RKMODULE_SET_QUICK_STREAM"
  /\ call.args.arg = 1
  /\ call.ret = 0
  /\ ~mia1321.streaming
  /\ sensor[MIA1321_REG_CTRL_MODE] = MIA1321_MODE_STREAMING

(***************************************************************************)
(* C23.                                                                    *)
(***************************************************************************)
\* the accesses to the state shared between callbacks
SharedAccesses == { "write_cur_mode", "modify_range", "read_cur_mode" }

\* C23: all driver state shared between callbacks is accessed under
\* mia1321->mutex.  Every write of cur_mode, every call of
\* __v4l2_ctrl_modify_range on hblank / vblank and every read of cur_mode,
\* by set_fmt, get_fmt, RKMODULE_SET_HDR_CFG or s_stream, is made by a thread
\* that holds the mutex.
C23_SharedStateUnderMutex ==
  access.kind \in SharedAccesses => access.locked

\* What the code keeps: the accesses of set_fmt and s_stream
SetFmtAndSStreamLocked ==
  access.fn \in { "set_fmt", "s_stream" } => access.locked

\* What the code keeps: at most one thread is between mutex_lock and
\* mutex_unlock
OneThreadInside ==
  \A t \in Threads :
    (threads[t].fn \in DOMAIN AfterLock
       /\ threads[t].pc \notin { "lock", "read" })
    => mutex = t

\* RKMODULE_SET_HDR_CFG assigned cur_mode while another thread was inside
\* mia1321_set_fmt, between its own assignment of cur_mode and its unlock
C23_HdrCfgWritesInsideSetFmt ==
  /\ access.fn = "ioctl"
  /\ access.kind = "write_cur_mode"
  /\ ~access.locked
  /\ mutex \in Threads \ { access.thread }
  /\ threads[mutex].fn = "set_fmt"
  /\ threads[mutex].pc \in { "hblank", "vblank", "fps" }

\* mia1321_get_fmt read cur_mode while another thread held the mutex
C23_GetFmtReadsUnlocked ==
  /\ access.fn = "get_fmt"
  /\ access.kind = "read_cur_mode"
  /\ ~access.locked
  /\ mutex \in Threads \ { access.thread }

(***************************************************************************)
(* C24.                                                                    *)
(***************************************************************************)
\* what pm_runtime_get_if_in_use returns in the current state
GetIfInUse == pm_runtime_get_if_in_use(World).rv

\* C24: when the sensor is not in use (pm_runtime_get_if_in_use returns 0),
\* mia1321_set_ctrl returns 0 for every control id without issuing any I2C
\* read or write, without changing cur_vts, is_mirror or is_flip, and without
\* taking or releasing a runtime-PM reference; when it is in use, set_ctrl
\* releases exactly the one reference it took before returning.
C24_SetCtrlSkipsUnusedSensor ==
  [][ (/\ bound = "bound"
       /\ call'.op = "s_ctrl"
       /\ IsChange(call'.args.id, call'.args.val))
      => IF GetIfInUse = 0
         THEN /\ call'.ret = 0
              /\ BusOps(call'.log) = <<>>
              /\ sensor' = sensor
              /\ mia1321'.cur_vts = mia1321.cur_vts
              /\ mia1321'.is_mirror = mia1321.is_mirror
              /\ mia1321'.is_flip = mia1321.is_flip
              /\ pm' = pm
         ELSE pm'.usage_count = pm.usage_count
    ]_vars

\* the analogue gain was changed while the device was suspended: the control
\* took the value and nothing reached the bus
C24_GainSetWhileSuspended ==
  /\ bound = "bound"
  /\ call.op = "s_ctrl"
  /\ call.args.id = "V4L2_CID_ANALOGUE_GAIN"
  /\ call.args.val # MIA1321_GAIN_DEFAULT
  /\ ctrls["V4L2_CID_ANALOGUE_GAIN"].val = call.args.val
  /\ call.ret = 0
  /\ call.log = <<>>
  /\ pm.status = "suspended"
  /\ pm.usage_count = 0

\* the analogue gain was changed while s_power held the sensor: the
\* registers were written and the usage count is the one s_power holds
C24_GainSetInUse ==
  /\ bound = "bound"
  /\ call.op = "s_ctrl"
  /\ call.args.id = "V4L2_CID_ANALOGUE_GAIN"
  /\ BusOps(call.log) # <<>>
  /\ mia1321.power_on
  /\ pm.usage_count = 1

=============================================================================
